---- MODULE Spec2Model ----
(***************************************************************************)
(* State-machine model of the Chaos rigid-body core:                       *)
(*   - TPBDRigidsSOAs, the particle store       (PBDRigidsSOAs.h)          *)
(*   - FPBDJointConstraints, the joint container (PBDJointConstraints.cpp) *)
(*   - FSimulation's actor/joint graph leveling                            *)
(*                                   (ImmediatePhysicsSimulation_Chaos.cpp)*)
(*   - AdvanceOneTimeStepTask::DoWork sub-stepping (PBDRigidsSolver.cpp)   *)
(* Indices are 0-based as in the code; TLA+ sequences are 1-based, so the  *)
(* element at code index i is s[i + 1].                                    *)
(***************************************************************************)
EXTENDS Integers, Sequences, FiniteSets, TLC

\* ------------------------------------------------------------------ bounds
\* Number of particle handles that can be live at once.
MaxParticles == 2
\* Largest NumParticles of one Create*Particles call.
MaxBatch == 2
\* Number of joint constraints the container holds at once.
MaxConstraints == 2
\* Largest NumIts of an Apply / ApplyPushOut pass.
MaxIts == 2
\* Number of actors and of joints of an immediate-mode simulation.
MaxActors == 3
MaxJoints == 2
\* Time is counted in ticks: the largest finite requested DeltaTime, the ticks
\* of one second, and the number of sub-steps of one task that the history
\* keeps.
MaxDeltaTicks == 5
TicksPerSecond == 2
MaxSubSteps == 6
\* The solver time up to which finite tasks are started.
MaxTimeTicks == 8
\* Number of game-thread particles, and of commands that wait in the queue.
MaxGTParticles == 2
MaxQueue == 3
\* The spring container's settings, and how far beyond twice the creation
\* threshold two sphere surfaces can be apart.
CreationThreshold == 2
MaxSprings == 2
MaxBeyond == 1

\* Largest TimeStepMultiplier, and the frame count up to which the solver
\* is advanced.
MaxMultiplier == 2
MaxFrames == 4

\* Largest NumPairIts of a solve.
MaxPairIts == 2

\* Largest number of pairs of one ignore table.
MaxIgnorePairs == 2

\* Number of networked simulation models, the largest frame time reported to
\* ShouldSendServerRPC and the accumulated time up to which frames are reported.
MaxModels == 3
MaxRPCDelta == 4
MaxAccumulated == 12

INDEX_NONE == -1

VARIABLES
    \* ---- TPBDRigidsSOAs
    soa,                        \* pool name -> array of particle slots
    handle,                     \* handle id -> [live, kind, pool, idx]
    ActiveParticlesToIndex,
    ActiveParticlesArray,
    ActiveClusteredToIndex,
    ActiveClusteredArray,
    NonDisabledClusteredToIndex,
    NonDisabledClusteredArray,
    deactivated,                \* history: handles whose last Activate/Deactivate call was Deactivate
    lastSwitch,                 \* history: the last enable / disable / activate / deactivate call, if it was the last call
    \* ---- FPBDJointConstraints
    ConstraintHandles,          \* Handles: array of handle identities
    ConstraintParticles,
    ConstraintSettings,
    ConstraintStates,
    ConstraintIndex,            \* handle identity -> the handle's ConstraintIndex
    Settings,                   \* FPBDJointSolverSettings
    createdFor,                 \* history: handle identity -> what its constraint was created with
    removedParticles,           \* history: RemovedParticles of the last RemoveConstraints call
    lastCall,                   \* history: what the last Apply / ApplyPushOut call did
    \* ---- FSimulation
    ActorHandles,               \* array of actor identities
    actor,                      \* actor identity -> [live, dynamic, Level]
    JointHandles,               \* array of joints: [Actors, ParticleLevels]
    conditioned,                \* history: no graph change since the last ConditionConstraints
    \* ---- AdvanceOneTimeStepTask
    pc,                         \* position of DoWork
    MDeltaTime,
    MMaxDeltaTime,
    MTime,                      \* the solver time
    requested,                  \* history: DeltaTime the task was constructed with
    steps,                      \* history: Dt of every AdvanceOneTimeStep call of the task
    endFrameDt,                 \* history: Dt handed to EndFrame
    \* ---- FPBDRigidsSolver: game-thread particles, proxies, commands
    ObjectType,                 \* game-thread particle -> its EParticleType, "None" before it exists
    Proxy,                      \* game-thread particle -> GTParticle->Proxy
    proxyObject,                \* proxy -> [live, Type, Particle, Handle]
    RigidParticlePhysicsProxies,
    KinematicGeometryParticlePhysicsProxies,
    GeometryParticlePhysicsProxies,
    DirtyProxiesSet,
    CommandQueue,               \* commands enqueued and not yet executed
    GTGeometryParticle,        \* particle handle -> Handle->GTGeometryParticle()
    dereferenced,               \* history: the proxy pointers the last operation called through
    earlyUnregister,            \* history: UnregisterObject was called with the Register command pending
    badDestroy,                 \* history: a command destroyed a handle that was not live
    \* ---- TPBDRigidDynamicSpringConstraints
    Constraints,                \* array of particle pairs, each particle with what the springs read of it
    Distances,                  \* per constraint: array of the springs' two local end points
    SpringDistances,            \* per constraint: array of the springs' rest lengths
    springEvent,                \* history: per constraint, what the last UpdatePositionBasedState did
    applyFault,                 \* history: how an ApplySingle call went wrong
    \* ---- FPBDJointUtilities, FPBDJointConstraints::AddConstraint(world frame)
    stiffnessCall,              \* the stiffness call in progress: its arguments, locals and results
    frameCall,                  \* the world-frame AddConstraint call in progress: arguments and stored frames
    \* ---- FPBDRigidsSolver::AdvanceSolverBy
    bEnabled,
    TimeStepMultiplier,
    CurrentFrame,
    MLastDt,
    advanceCall,                \* history: the last AdvanceSolverBy call and what the solver was before it
    \* ---- FPBDJointConstraints::SolvePosition / SolveVelocity / ProjectPosition
    SolveParticles,             \* particle -> what the solves read and write of it
    solveCall,                  \* the solve in progress: its position, locals and what it has written
    \* ---- FSimulation: active bodies and ignored collision pairs
    NumActiveActorHandles,
    activeCall,                 \* history: the last SetNumActiveBodies call and the indices it used
    IgnoreCollisionParticlePairTable,   \* the map, as its (key, element of the key's set) pairs
    ChaosImmediate_Collision_Enabled,
    ignoreCall,                 \* history: the last SetIgnoreCollisionPairTable call
    \* ---- TNetworkedSimulationModel
    NetModels,                  \* the models constructed and not destroyed
    ParentSimulation,           \* model -> RepProxy_Simulated.ParentSimulation
    DependentSimulations,       \* model -> RepProxy_Autonomous.DependentSimulations
    netCall,                    \* history: the last call on a model
    ServerRPCAccumulatedTimeSeconds,
    ServerRPCThresholdTimeSeconds,
    rpcCall                     \* history: the last ShouldSendServerRPC call

soaVars == << soa, handle, ActiveParticlesToIndex, ActiveParticlesArray,
              ActiveClusteredToIndex, ActiveClusteredArray,
              NonDisabledClusteredToIndex, NonDisabledClusteredArray,
              deactivated, lastSwitch >>

jointVars == << ConstraintHandles, ConstraintParticles, ConstraintSettings,
                ConstraintStates, ConstraintIndex, Settings,
                createdFor, removedParticles, lastCall >>

simVars == << ActorHandles, actor, JointHandles, conditioned >>

stepVars == << pc, MDeltaTime, MMaxDeltaTime, MTime, requested, steps, endFrameDt >>

solverVars == << ObjectType, Proxy, proxyObject, RigidParticlePhysicsProxies,
                 KinematicGeometryParticlePhysicsProxies,
                 GeometryParticlePhysicsProxies, DirtyProxiesSet, CommandQueue,
                 GTGeometryParticle, dereferenced, earlyUnregister, badDestroy >>

springVars == << Constraints, Distances, SpringDistances, springEvent, applyFault >>

callVars == << stiffnessCall, frameCall >>

advanceVars == << bEnabled, TimeStepMultiplier, CurrentFrame, MLastDt, advanceCall >>

solveVars == << SolveParticles, solveCall >>

activeVars == << NumActiveActorHandles, activeCall, IgnoreCollisionParticlePairTable,
                 ChaosImmediate_Collision_Enabled, ignoreCall >>

netVars == << NetModels, ParentSimulation, DependentSimulations, netCall,
              ServerRPCAccumulatedTimeSeconds, ServerRPCThresholdTimeSeconds, rpcCall >>

lateVars == << advanceVars, solveVars, activeVars, netVars >>

vars == << soaVars, jointVars, simVars, stepVars, solverVars, springVars, callVars, lateVars >>

\* ------------------------------------------------------------ TArray helpers

\* TArray::RemoveAtSwap(Index): the last element takes the freed place.
RemoveAtSwap(s, i) ==
    IF i + 1 = Len(s)
    THEN SubSeq(s, 1, Len(s) - 1)
    ELSE [SubSeq(s, 1, Len(s) - 1) EXCEPT ![i + 1] = s[Len(s)]]

Range(s) == { s[i] : i \in DOMAIN s }

EmptyMap == [x \in {} |-> 0]

MapAdd(M, k, v) == [x \in (DOMAIN M) \cup {k} |-> IF x = k THEN v ELSE M[x]]

MapRemove(M, k) == [x \in (DOMAIN M) \ {k} |-> M[x]]

\* ------------------------------------------------------------ particle store

Handles == 1 .. MaxParticles

PoolNames == { "Static", "StaticDisabled", "Kinematic", "KinematicDisabled",
               "Dynamic", "DynamicKinematic", "DynamicDisabled", "Clustered" }

Kinds == { "Static", "Kinematic", "Dynamic", "Clustered" }

\* EObjectStateType values that the store distinguishes (Uninitialized and
\* Static take the default branch of SetDynamicParticleSOA, like Dynamic).
ObjectStates == { "Dynamic", "Kinematic", "Sleeping" }

\* No EnableParticle / DisableParticle call on record.
NoSwitch == [ Op |-> "None", Particle |-> 0, Again |-> FALSE ]

NullHandle == [live |-> FALSE, kind |-> "Static", pool |-> "Static", idx |-> INDEX_NONE]

LiveHandles == { h \in Handles : handle[h].live }

\* The slot a handle resolves to: GeometryParticles[ParticleIdx].
Slot(S, H, h) == S[H[h].pool][H[h].idx + 1]

\* AsDynamic() != nullptr
AsDynamic(H, h) == H[h].kind \in { "Dynamic", "Clustered" }

\* AsClustered() != nullptr
AsClustered(H, h) == H[h].kind = "Clustered"

\* AsKinematic() != nullptr
AsKinematic(H, h) == H[h].kind \in { "Kinematic", "Dynamic", "Clustered" }

\* TPBDRigidParticleHandle::Sleeping()
Sleeping(S, H, h) == Slot(S, H, h).ObjectState = "Sleeping"

\* A write through the handle to one attribute of its slot.
SetAttr(S, H, h, f, v) == [S EXCEPT ![H[h].pool][H[h].idx + 1][f] = v]

\* A newly added slot, owned by handle h. The handle is created without the
\* creation parameters, so the attributes are the defaults.
NewSlot(h) == [Handle |-> h, Disabled |-> FALSE, ObjectState |-> "Dynamic", VZero |-> TRUE]

\* TGeometryParticleHandle::MoveToSOA: the slot leaves its pool by
\* swap-with-last (the survivor's handle is told its new index) and is
\* appended to the target pool.
MoveToSOA(S, H, h, To) ==
    LET From == H[h].pool
        i    == H[h].idx
        left == RemoveAtSwap(S[From], i)
        H1   == IF i < Len(left)
                THEN [H EXCEPT ![left[i + 1].Handle].idx = i]
                ELSE H
    IN  IF From = To
        THEN [soa |-> S, handle |-> H]
        ELSE [soa    |-> [S EXCEPT ![From] = left, ![To] = Append(S[To], S[From][i + 1])],
              handle |-> [H1 EXCEPT ![h].pool = To, ![h].idx = Len(S[To])]]

\* TGeometryParticleHandles::DestroyHandleSwap: frees the handle and its slot
\* (swap-with-last in its pool, the survivor's handle is told its new index).
DestroyHandleSwap(S, H, h) ==
    LET From == H[h].pool
        i    == H[h].idx
        left == RemoveAtSwap(S[From], i)
        H1   == IF i < Len(left)
                THEN [H EXCEPT ![left[i + 1].Handle].idx = i]
                ELSE H
    IN  [soa    |-> [S EXCEPT ![From] = left],
         handle |-> [H1 EXCEPT ![h] = NullHandle]]

\* Mutant of InsertToMapAndArray: the particle is not looked up first.
InsertToMapAndArrayUnchecked(P, M, A) ==
    [map |-> MapAdd(M, P, Len(A)), arr |-> Append(A, P)]

\* InsertToMapAndArray(Particle, ParticleToIndex, ParticleArray)
InsertToMapAndArray(P, M, A) ==
    IF P \notin DOMAIN M
    THEN [map |-> MapAdd(M, P, Len(A)), arr |-> Append(A, P)]
    ELSE [map |-> M, arr |-> A]

\* InsertToMapAndArray(ParticlesToInsert, ParticleToIndex, ParticleArray):
\* the batch overload, which does not look the particles up first.
InsertAllToMapAndArray(Ps, M, A) ==
    [map |-> [x \in (DOMAIN M) \cup Range(Ps) |->
                 IF x \in Range(Ps)
                 THEN Len(A) + (CHOOSE k \in DOMAIN Ps : Ps[k] = x) - 1
                 ELSE M[x]],
     arr |-> A \o Ps]

\* Mutant of RemoveFromMapAndArray: the element swapped into the gap keeps
\* its old index in the map.
RemoveFromMapAndArrayStale(P, M, A) ==
    IF P \in DOMAIN M
    THEN [map |-> MapRemove(M, P), arr |-> RemoveAtSwap(A, M[P])]
    ELSE [map |-> M, arr |-> A]

\* RemoveFromMapAndArray(Particle, ParticleToIndex, ParticleArray)
RemoveFromMapAndArray(P, M, A) ==
    IF P \in DOMAIN M
    THEN LET Idx == M[P]
             A1  == RemoveAtSwap(A, Idx)
             M1  == IF Idx < Len(A1) /\ A1[Idx + 1] \in DOMAIN M
                    THEN [M EXCEPT ![A1[Idx + 1]] = Idx]
                    ELSE M
         IN  [map |-> MapRemove(M1, P), arr |-> A1]
    ELSE [map |-> M, arr |-> A]

\* The pool SetDynamicParticleSOA selects for an object state.
DynamicSOAFor(State) ==
    CASE State = "Kinematic" -> "DynamicKinematic"
      [] State = "Dynamic"   -> "Dynamic"
      [] OTHER               -> "Dynamic"

\* The store as one value, so that the handlers compose.
Store ==
    [soa |-> soa, handle |-> handle,
     APmap |-> ActiveParticlesToIndex,      AParr |-> ActiveParticlesArray,
     ACmap |-> ActiveClusteredToIndex,      ACarr |-> ActiveClusteredArray,
     NDmap |-> NonDisabledClusteredToIndex, NDarr |-> NonDisabledClusteredArray]

WithMove(st, m) == [st EXCEPT !.soa = m.soa, !.handle = m.handle]

WithActive(st, r) == [st EXCEPT !.APmap = r.map, !.AParr = r.arr]

WithActiveClustered(st, r) == [st EXCEPT !.ACmap = r.map, !.ACarr = r.arr]

WithNonDisabledClustered(st, r) == [st EXCEPT !.NDmap = r.map, !.NDarr = r.arr]

\* The handles a Create call gives out: the n lowest free ones, in order.
RECURSIVE FreeHandles(_, _, _)
FreeHandles(H, n, from) ==
    IF n = 0 \/ from > MaxParticles THEN << >>
    ELSE IF H[from].live THEN FreeHandles(H, n, from + 1)
    ELSE << from >> \o FreeHandles(H, n - 1, from + 1)

\* The pool Create*Particles allocates in.
CreatePool(kind, bDisabled) ==
    CASE kind = "Static"    -> IF bDisabled THEN "StaticDisabled" ELSE "Static"
      [] kind = "Kinematic" -> IF bDisabled THEN "KinematicDisabled" ELSE "Kinematic"
      [] kind = "Dynamic"   -> IF bDisabled THEN "DynamicDisabled" ELSE "Dynamic"
      [] OTHER              -> "Clustered"

\* Mutant of NewParticleIdx: the pool's previous size is forgotten.
NewParticleIdxNoStart(Count, ParticlesStartIdx) == Count

\* The slot index CreateParticlesHelper gives the Count-th new particle.
NewParticleIdx(Count, ParticlesStartIdx) == Count + ParticlesStartIdx

\* CreateParticlesHelper: NumParticles new slots at the end of the pool, one
\* new handle each.
CreateParticlesHelper(st, New, kind, pool) ==
    LET ParticlesStartIdx == Len(st.soa[pool])
    IN  [st EXCEPT
           !.soa[pool] = st.soa[pool] \o [c \in 1 .. Len(New) |-> NewSlot(New[c])],
           !.handle = [h \in Handles |->
               IF h \in Range(New)
               THEN [live |-> TRUE, kind |-> kind, pool |-> pool,
                     idx  |-> NewParticleIdx((CHOOSE c \in DOMAIN New : New[c] = h) - 1,
                                             ParticlesStartIdx)]
               ELSE st.handle[h]]]

\* Whether CreateDynamicParticles / CreateClusteredParticles put the new
\* particles into the active arrays.
CreateInsertsActive(bDisabled, bStartSleeping) == ~bStartSleeping

\* CreateStaticParticles / CreateKinematicParticles / CreateDynamicParticles /
\* CreateClusteredParticles
CreateParticles(st, New, kind, bDisabled, bStartSleeping) ==
    LET st1 == CreateParticlesHelper(st, New, kind, CreatePool(kind, bDisabled))
        st2 == IF kind = "Clustered" /\ ~bDisabled
               THEN WithNonDisabledClustered(st1, InsertAllToMapAndArray(New, st1.NDmap, st1.NDarr))
               ELSE st1
        st3 == IF kind \in { "Dynamic", "Clustered" } /\ CreateInsertsActive(bDisabled, bStartSleeping)
               THEN WithActive(st2, InsertAllToMapAndArray(New, st2.APmap, st2.AParr))
               ELSE st2
    IN  IF kind = "Clustered" /\ CreateInsertsActive(bDisabled, bStartSleeping)
        THEN WithActiveClustered(st3, InsertAllToMapAndArray(New, st3.ACmap, st3.ACarr))
        ELSE st3

\* Mutant of DestroyParticle: the particle stays in the active arrays.
DestroyParticleStaysActive(st, h) ==
    WithMove(st, DestroyHandleSwap(st.soa, st.handle, h))

\* Mutant of DestroyParticle: the survivor swapped into the freed slot keeps
\* its old index.
DestroyParticleStaleSurvivor(st, h) ==
    LET st1 == IF AsDynamic(st.handle, h)
               THEN WithActive(st, RemoveFromMapAndArray(h, st.APmap, st.AParr))
               ELSE st
        From == st1.handle[h].pool
    IN  [st1 EXCEPT !.soa[From] = RemoveAtSwap(st1.soa[From], st1.handle[h].idx),
                    !.handle[h] = NullHandle]

\* DestroyParticle
DestroyParticle(st, h) ==
    LET st1 == IF AsDynamic(st.handle, h)
               THEN WithActive(st, RemoveFromMapAndArray(h, st.APmap, st.AParr))
               ELSE st
    IN  WithMove(st1, DestroyHandleSwap(st1.soa, st1.handle, h))

\* Mutant of ZeroVelocities: the velocities are left as they are.
KeepVelocities(S, H, h) == S

\* DisableParticle: V() = 0 and W() = 0.
ZeroVelocities(S, H, h) == SetAttr(S, H, h, "VZero", TRUE)

\* DisableParticle
DisableParticle(st, h) ==
    IF AsDynamic(st.handle, h)
    THEN LET s1  == ZeroVelocities(SetAttr(st.soa, st.handle, h, "Disabled", TRUE),
                                   st.handle, h)
             st1 == [st EXCEPT !.soa = s1]
             st2 == IF AsClustered(st.handle, h)
                    THEN WithActiveClustered(
                             WithNonDisabledClustered(st1,
                                 RemoveFromMapAndArray(h, st1.NDmap, st1.NDarr)),
                             RemoveFromMapAndArray(h, st1.ACmap, st1.ACarr))
                    ELSE WithMove(st1, MoveToSOA(st1.soa, st1.handle, h, "DynamicDisabled"))
         IN  WithActive(st2, RemoveFromMapAndArray(h, st2.APmap, st2.AParr))
    ELSE IF AsKinematic(st.handle, h)
    THEN WithMove(st, MoveToSOA(st.soa, st.handle, h, "KinematicDisabled"))
    ELSE WithMove(st, MoveToSOA(st.soa, st.handle, h, "StaticDisabled"))

\* SetDynamicParticleSOA
SetDynamicParticleSOA(st, h) ==
    WithMove(st, MoveToSOA(st.soa, st.handle, h,
                           DynamicSOAFor(Slot(st.soa, st.handle, h).ObjectState)))

\* Whether EnableParticle puts the particle back into the active arrays.
EnableInsertsActive(st, h) == ~Sleeping(st.soa, st.handle, h)

\* EnableParticle
EnableParticle(st, h) ==
    IF AsDynamic(st.handle, h)
    THEN LET st1 == IF AsClustered(st.handle, h)
                    THEN LET a == WithNonDisabledClustered(st,
                                      InsertToMapAndArray(h, st.NDmap, st.NDarr))
                         IN  IF EnableInsertsActive(a, h)
                             THEN WithActiveClustered(a, InsertToMapAndArray(h, a.ACmap, a.ACarr))
                             ELSE a
                    ELSE SetDynamicParticleSOA(st, h)
             st2 == IF EnableInsertsActive(st1, h)
                    THEN WithActive(st1, InsertToMapAndArray(h, st1.APmap, st1.AParr))
                    ELSE st1
         IN  [st2 EXCEPT !.soa = SetAttr(st2.soa, st2.handle, h, "Disabled", FALSE)]
    ELSE IF AsKinematic(st.handle, h)
    THEN WithMove(st, MoveToSOA(st.soa, st.handle, h, "Kinematic"))
    ELSE WithMove(st, MoveToSOA(st.soa, st.handle, h, "Static"))

\* ActivateParticle
ActivateParticle(st, h) ==
    IF AsDynamic(st.handle, h)
    THEN LET st1 == IF AsClustered(st.handle, h)
                    THEN WithActiveClustered(st, InsertToMapAndArray(h, st.ACmap, st.ACarr))
                    ELSE st
         IN  WithActive(st1, InsertToMapAndArray(h, st1.APmap, st1.AParr))
    ELSE st

\* Mutant of DeactivateParticle: the particle is disabled as well.
DeactivateParticleDisables(st, h) == DisableParticle(st, h)

\* DeactivateParticle
DeactivateParticle(st, h) ==
    IF AsDynamic(st.handle, h)
    THEN LET st1 == IF AsClustered(st.handle, h)
                    THEN WithActiveClustered(st, RemoveFromMapAndArray(h, st.ACmap, st.ACarr))
                    ELSE st
         IN  WithActive(st1, RemoveFromMapAndArray(h, st1.APmap, st1.AParr))
    ELSE st

\* check(!PBDRigid->Disabled()) of ActivateParticle / DeactivateParticle: the
\* call is made only where the assertion passes.
CheckNotDisabled(h) == AsDynamic(handle, h) => ~Slot(soa, handle, h).Disabled

\* UpdateViews: the views are facades over the pools and index arrays.
GetActiveParticlesView == Range(ActiveParticlesArray)

GetNonDisabledView ==
    { s.Handle : s \in Range(soa["Static"]) \cup Range(soa["Kinematic"])
                       \cup Range(soa["Dynamic"]) \cup Range(soa["DynamicKinematic"]) }
    \cup Range(NonDisabledClusteredArray)

GetNonDisabledDynamicView ==
    { s.Handle : s \in Range(soa["Dynamic"]) } \cup Range(NonDisabledClusteredArray)

GetAllParticlesView == { s.Handle : s \in UNION { Range(soa[p]) : p \in PoolNames } }

GetActiveKinematicParticlesView ==
    { s.Handle : s \in Range(soa["Kinematic"]) \cup Range(soa["DynamicKinematic"]) }

\* ---- actions of the particle store

CommitSoa(st) ==
    /\ soa' = st.soa
    /\ handle' = st.handle
    /\ ActiveParticlesToIndex' = st.APmap
    /\ ActiveParticlesArray' = st.AParr
    /\ ActiveClusteredToIndex' = st.ACmap
    /\ ActiveClusteredArray' = st.ACarr
    /\ NonDisabledClusteredToIndex' = st.NDmap
    /\ NonDisabledClusteredArray' = st.NDarr

Commit(st) ==
    /\ CommitSoa(st)
    /\ UNCHANGED << jointVars, simVars, stepVars, solverVars, springVars, callVars, lateVars >>

Create(kind, n, bDisabled, bStartSleeping) ==
    LET New == FreeHandles(handle, n, 1)
    IN  /\ Len(New) = n
        /\ Commit(CreateParticles(Store, New, kind, bDisabled, bStartSleeping))

CreateAction ==
    \E kind \in Kinds, n \in 1 .. MaxBatch, bDisabled \in BOOLEAN, bStartSleeping \in BOOLEAN :
        /\ (kind \in { "Static", "Kinematic" } => ~bStartSleeping)
        /\ Create(kind, n, bDisabled, bStartSleeping)

Destroy(h) ==
    /\ ~AsClustered(handle, h)
    /\ Commit(DestroyParticle(Store, h))

Disable(h) ==
    /\ Commit(DisableParticle(Store, h))

Enable(h) ==
    /\ Commit(EnableParticle(Store, h))

Activate(h) ==
    /\ CheckNotDisabled(h)
    /\ Commit(ActivateParticle(Store, h))

Deactivate(h) ==
    /\ CheckNotDisabled(h)
    /\ Commit(DeactivateParticle(Store, h))

\* SetDynamicParticleSOA, called for a rigid particle of the dynamic pools.
SetDynamicSOA(h) ==
    /\ handle[h].kind = "Dynamic"
    /\ Commit(SetDynamicParticleSOA(Store, h))

\* The velocities of an enabled rigid particle are written through its
\* handle, to zero or to something else.
SetVelocity(h, bZero) ==
    /\ AsDynamic(handle, h)
    /\ ~Slot(soa, handle, h).Disabled
    /\ soa' = SetAttr(soa, handle, h, "VZero", bZero)
    /\ UNCHANGED << handle, ActiveParticlesToIndex, ActiveParticlesArray,
                    ActiveClusteredToIndex, ActiveClusteredArray,
                    NonDisabledClusteredToIndex, NonDisabledClusteredArray >>
    /\ UNCHANGED << jointVars, simVars, stepVars, solverVars, springVars, callVars, lateVars >>

\* SetObjectState through the handle of a rigid particle.
SetObjectState(h, s) ==
    /\ AsDynamic(handle, h)
    /\ soa' = SetAttr(soa, handle, h, "ObjectState", s)
    /\ UNCHANGED << handle, ActiveParticlesToIndex, ActiveParticlesArray,
                    ActiveClusteredToIndex, ActiveClusteredArray,
                    NonDisabledClusteredToIndex, NonDisabledClusteredArray >>
    /\ UNCHANGED << jointVars, simVars, stepVars, solverVars, springVars, callVars, lateVars >>

\* ----------------------------------------------------------- joint container

\* Identities of the handles the handle allocator gives out.
JointIds == 1 .. MaxConstraints

\* The particles joints are made between, and the pairs of a chain of them.
JointParticles == 1 .. (MaxConstraints + 1)

ParticlePairs == { << p, p + 1 >> : p \in 1 .. MaxConstraints }

\* Values of FPBDJointSettings a constraint is added with.
JointSettingsSpace == { "SettingsA", "SettingsB" }

\* Values of the particle levels handed to SetParticleLevels.
LevelPairs == { << 0, 1 >>, << 1, 2 >>, << 1, 0 >> }

ProjectionPhases == { "None", "Apply", "ApplyPushOut" }

SolverSettingsSpace ==
    [ ApplyPairIterations : {0, 1},
      ApplyPushOutPairIterations : {0, 1},
      ProjectionPhase : ProjectionPhases,
      bEnableVelocitySolve : BOOLEAN ]

\* FPBDJointSolverSettings(): the fields the passes read.
DefaultSolverSettings ==
    [ ApplyPairIterations |-> 1,
      ApplyPushOutPairIterations |-> 1,
      ProjectionPhase |-> "None",
      bEnableVelocitySolve |-> FALSE ]

\* Mutant of FPBDJointState: a new constraint starts at the root level.
FPBDJointStateAtRoot ==
    [ Level |-> 0, ParticleLevels |-> << 0, 0 >> ]

\* FPBDJointState().
FPBDJointState ==
    [ Level |-> INDEX_NONE, ParticleLevels |-> << INDEX_NONE, INDEX_NONE >> ]

Min(a, b) == IF a < b THEN a ELSE b

\* The container's arrays and the handles' indices as one value.
Container ==
    [ Handles |-> ConstraintHandles,
      Particles |-> ConstraintParticles,
      JointSettings |-> ConstraintSettings,
      States |-> ConstraintStates,
      Index |-> ConstraintIndex ]

NumConstraints(c) == Len(c.Particles)

\* HandleAllocator.AllocHandle: a handle that is not in use.
AllocHandle(c) ==
    CHOOSE h \in JointIds :
        /\ h \notin Range(c.Handles)
        /\ \A g \in JointIds : g \notin Range(c.Handles) => h <= g

AddConstraint(c, InConstrainedParticles, InConstraintSettings) ==
    LET ConstraintIndex_ == Len(c.Handles)
        h == AllocHandle(c)
    IN  [ Handles |-> Append(c.Handles, h),
          Particles |-> Append(c.Particles, InConstrainedParticles),
          JointSettings |-> Append(c.JointSettings, InConstraintSettings),
          States |-> Append(c.States, FPBDJointState),
          Index |-> [c.Index EXCEPT ![h] = ConstraintIndex_] ]

\* RemoveConstraint up to and including the four RemoveAtSwap calls.
RemoveConstraintSwap(c, i) ==
    [ Handles |-> RemoveAtSwap(c.Handles, i),
      Particles |-> RemoveAtSwap(c.Particles, i),
      JointSettings |-> RemoveAtSwap(c.JointSettings, i),
      States |-> RemoveAtSwap(c.States, i),
      Index |-> [c.Index EXCEPT ![c.Handles[i + 1]] = INDEX_NONE] ]

\* RemoveConstraint without the update of the moved handle.
RemoveConstraintNoRewire(c, i) == RemoveConstraintSwap(c, i)

RemoveConstraint(c, i) ==
    LET d == RemoveConstraintSwap(c, i)
    IN  IF i < Len(d.Handles)
        THEN [d EXCEPT !.Index[d.Handles[i + 1]] = i]
        ELSE d

\* RemoveConstraints(RemovedParticles): the body is empty.
RemoveConstraints(c, RemovedParticles) == c

ConstraintLevelOf(ParticleLevels) == Min(ParticleLevels[1], ParticleLevels[2])

SetParticleLevels(c, i, ParticleLevels) ==
    [c EXCEPT !.States[i + 1] =
        [ Level |-> ConstraintLevelOf(ParticleLevels),
          ParticleLevels |-> ParticleLevels ]]

GetConstraintLevel(c, i) == c.States[i + 1].Level

\* FPBDJointConstraintHandle::GetConstraintLevel.
HandleLevel(c, h) == GetConstraintLevel(c, c.Index[h])

\* All orders in which the elements of a set can be listed.
SeqsOf(S) == { s \in [1 .. Cardinality(S) -> S] : Range(s) = S }

\* The container's handles, as an array in any order.
HandleLists(c) == SeqsOf(Range(c.Handles))

\* TArray::Sort with a predicate: the sort is not stable, so the result is
\* any order of the same elements in which no element is placed after one
\* that the predicate puts behind it.
Sort(In, Less) ==
    { s \in SeqsOf(Range(In)) :
          \A i, j \in 1 .. Len(s) : i < j => << s[j], s[i] >> \notin Less }

\* The pairs of elements a sort predicate is asked about.
Ordered(In) == Range(In) \X Range(In)

\* Root-to-leaf predicate in the place of Apply's.
ApplySortRootToLeaf(c, L, R) == HandleLevel(c, L) < HandleLevel(c, R)

\* Apply: sort bodies from leaf to root.
ApplySortPredicate(c, L, R) == HandleLevel(c, L) > HandleLevel(c, R)

\* ApplyPushOut: sort bodies from root to leaf.
PushOutSortPredicate(c, L, R) == HandleLevel(c, L) < HandleLevel(c, R)

\* ApplyProjection: sort bodies from root to leaf.
ProjectionSortPredicate(c, L, R) == HandleLevel(c, L) < HandleLevel(c, R)

\* ApplyProjection: the orders in which ProjectPosition can be called.
ApplyProjection(c, In) ==
    Sort(In, { LR \in Ordered(In) :
                   ProjectionSortPredicate(c, LR[1], LR[2]) })

ApplyProjectionIt(NumIts) == NumIts - 1

ApplyProjects(S, It, NumIts) ==
    /\ S.ProjectionPhase = "Apply"
    /\ It = ApplyProjectionIt(NumIts)

\* ApplyPushOut projecting on the last iteration whatever the pair iterations.
PushOutProjectionItLast(S, NumIts) == NumIts - 1

PushOutProjectionIt(S, NumIts) ==
    IF S.ApplyPushOutPairIterations > 0 THEN NumIts - 1 ELSE 0

PushOutProjects(S, It, NumIts) ==
    /\ S.ProjectionPhase = "ApplyPushOut"
    /\ It = PushOutProjectionIt(S, NumIts)

NoCall ==
    [ Pass |-> "NoCall", It |-> 0, NumIts |-> 0, In |-> {}, Solver |-> "None",
      Solved |-> << >>, Projected |-> FALSE, Projection |-> << >> ]

\* Apply: what one call can do, as the calls it makes in their order.
ApplyOutcomes(c, S, In, It, NumIts) ==
    { [ Pass |-> "Apply", It |-> It, NumIts |-> NumIts, In |-> Range(In),
        Solver |-> IF S.bEnableVelocitySolve THEN "SolveVelocity" ELSE "SolvePosition",
        Solved |-> sorted,
        Projected |-> ApplyProjects(S, It, NumIts),
        Projection |-> proj ] :
      sorted \in Sort(In, { LR \in Ordered(In) :
                   ApplySortPredicate(c, LR[1], LR[2]) }),
      proj \in IF ApplyProjects(S, It, NumIts)
               THEN ApplyProjection(c, In) ELSE { << >> } }

\* ApplyPushOut: what one call can do.
ApplyPushOutOutcomes(c, S, In, It, NumIts) ==
    { [ Pass |-> "ApplyPushOut", It |-> It, NumIts |-> NumIts, In |-> Range(In),
        Solver |-> IF S.ApplyPushOutPairIterations > 0 THEN "SolvePosition" ELSE "None",
        Solved |-> sorted,
        Projected |-> PushOutProjects(S, It, NumIts),
        Projection |-> proj ] :
      sorted \in IF S.ApplyPushOutPairIterations > 0
                 THEN Sort(In, { LR \in Ordered(In) :
                   PushOutSortPredicate(c, LR[1], LR[2]) })
                 ELSE { << >> },
      proj \in IF PushOutProjects(S, It, NumIts)
               THEN ApplyProjection(c, In) ELSE { << >> } }

\* What a handle that is not in use was created for.
NoConstraint ==
    [ Particles |-> << >>, JointSettings |-> "None", ParticleLevels |-> << >> ]

CommitJoints(c) ==
    /\ ConstraintHandles' = c.Handles
    /\ ConstraintParticles' = c.Particles
    /\ ConstraintSettings' = c.JointSettings
    /\ ConstraintStates' = c.States
    /\ ConstraintIndex' = c.Index
    /\ UNCHANGED << soaVars, simVars, stepVars, solverVars, springVars, callVars, lateVars >>

AddConstraintAction(InConstrainedParticles, InConstraintSettings) ==
    /\ Len(ConstraintHandles) < MaxConstraints
    /\ CommitJoints(AddConstraint(Container, InConstrainedParticles, InConstraintSettings))
    /\ createdFor' = [createdFor EXCEPT ![AllocHandle(Container)] =
                         [ Particles |-> InConstrainedParticles,
                           JointSettings |-> InConstraintSettings,
                           ParticleLevels |-> FPBDJointState.ParticleLevels ]]
    /\ removedParticles' = {}
    /\ lastCall' = NoCall
    /\ UNCHANGED Settings

RemoveConstraintAction(i) ==
    /\ i < Len(ConstraintHandles)
    /\ CommitJoints(RemoveConstraint(Container, i))
    /\ createdFor' = [createdFor EXCEPT ![ConstraintHandles[i + 1]] = NoConstraint]
    /\ lastCall' = NoCall
    /\ UNCHANGED << Settings, removedParticles >>

RemoveConstraintsAction(RemovedParticles) ==
    /\ CommitJoints(RemoveConstraints(Container, RemovedParticles))
    /\ removedParticles' = RemovedParticles
    /\ lastCall' = NoCall
    /\ UNCHANGED << Settings, createdFor >>

\* FPBDJointConstraintHandle::SetParticleLevels on a live handle.
HandleSetParticleLevels(h, ParticleLevels) ==
    /\ h \in Range(ConstraintHandles)
    /\ CommitJoints(SetParticleLevels(Container, ConstraintIndex[h], ParticleLevels))
    /\ createdFor' = [createdFor EXCEPT ![h].ParticleLevels = ParticleLevels]
    /\ lastCall' = NoCall
    /\ UNCHANGED << Settings, removedParticles >>

SetSettings(InSettings) ==
    /\ Settings' = InSettings
    /\ lastCall' = NoCall
    /\ UNCHANGED << ConstraintHandles, ConstraintParticles, ConstraintSettings,
                    ConstraintStates, ConstraintIndex, createdFor, removedParticles >>
    /\ UNCHANGED << soaVars, simVars, stepVars, solverVars, springVars, callVars, lateVars >>

PassCall(outcomes) ==
    /\ lastCall' \in outcomes
    /\ UNCHANGED << ConstraintHandles, ConstraintParticles, ConstraintSettings,
                    ConstraintStates, ConstraintIndex, Settings, createdFor,
                    removedParticles >>
    /\ UNCHANGED << soaVars, simVars, stepVars, solverVars, springVars, callVars, lateVars >>

Apply(In, It, NumIts) ==
    PassCall(ApplyOutcomes(Container, Settings, In, It, NumIts))

ApplyPushOut(In, It, NumIts) ==
    PassCall(ApplyPushOutOutcomes(Container, Settings, In, It, NumIts))

JointsInit ==
    /\ ConstraintHandles = << >>
    /\ ConstraintParticles = << >>
    /\ ConstraintSettings = << >>
    /\ ConstraintStates = << >>
    /\ ConstraintIndex = [h \in JointIds |-> INDEX_NONE]
    /\ Settings = DefaultSolverSettings
    /\ createdFor = [h \in JointIds |-> NoConstraint]
    /\ removedParticles = {}
    /\ lastCall = NoCall

\* ------------------------------------------------- FSimulation: graph leveling

ActorIds == 1 .. MaxActors

\* The levels an actor handle can hold before the first leveling.
InitialLevels == { INDEX_NONE, 0 }

\* The pairs of actors a joint is created between.
ActorPairs(A) == { ab \in A \X A : ab[1] < ab[2] }

NoActor == [ live |-> FALSE, dynamic |-> FALSE, Level |-> INDEX_NONE ]

\* A new FActorHandle: whether its particle is a dynamic one (the actor type
\* decides), and the level it holds.
NewActor(bDynamic, Level) == [ live |-> TRUE, dynamic |-> bDynamic, Level |-> Level ]

\* FJointHandle between two actors: its constraint has the state FPBDJointState().
NewJoint(Body1, Body2) ==
    [ Actors |-> << Body1, Body2 >>, ParticleLevels |-> FPBDJointState.ParticleLevels ]

\* ActorHandle->GetParticle()->AsDynamic().
ActorAsDynamic(A, a) == A[a].dynamic

\* ConditionConstraints, first loop: every level reset, the non-dynamic
\* actors at level 0; the result after the first k actors of ActorHandles.
RECURSIVE ResetLevels(_, _, _)
ResetLevels(A, AH, k) ==
    IF k = 0 THEN A
    ELSE LET a == AH[k]
             B == ResetLevels(A, AH, k - 1)
         IN  [B EXCEPT ![a].Level = IF ActorAsDynamic(B, a) THEN INDEX_NONE ELSE 0]

\* ConditionConstraints, first loop: the queue of the non-dynamic actors.
RECURSIVE InitialQueue(_, _, _)
InitialQueue(A, AH, k) ==
    IF k = 0 THEN << >>
    ELSE IF ActorAsDynamic(A, AH[k])
         THEN InitialQueue(A, AH, k - 1)
         ELSE Append(InitialQueue(A, AH, k - 1), AH[k])

\* ConditionConstraints, second loop: ActorJoints[a] after the first k joints.
RECURSIVE ActorJoints(_, _, _)
ActorJoints(JH, a, k) ==
    IF k = 0 THEN << >>
    ELSE LET rest == ActorJoints(JH, a, k - 1)
             with0 == IF JH[k].Actors[1] = a THEN Append(rest, k) ELSE rest
         IN  IF JH[k].Actors[2] = a THEN Append(with0, k) ELSE with0

\* The level given to an actor found from one that is at level l, not
\* incremented.
NextLevelSame(l) == l

NextLevel(l) == l + 1

\* One end of a joint seen from ActorHandle: levelled and queued if it has no
\* level yet.  LQ is << actors, queue >>.
VisitEnd(LQ, ActorHandle, e) ==
    IF LQ[1][e].Level = INDEX_NONE
    THEN << [LQ[1] EXCEPT ![e].Level = NextLevel(LQ[1][ActorHandle].Level)],
            Append(LQ[2], e) >>
    ELSE LQ

\* Third loop, inner: the first k joints of ActorJoints[ActorHandle].
RECURSIVE VisitJoints(_, _, _, _, _)
VisitJoints(LQ, JH, ActorHandle, AJ, k) ==
    IF k = 0 THEN LQ
    ELSE LET before == VisitJoints(LQ, JH, ActorHandle, AJ, k - 1)
             ends == JH[AJ[k]].Actors
         IN  VisitEnd(VisitEnd(before, ActorHandle, ends[1]), ActorHandle, ends[2])

\* Third loop, outer: breadth-first from ActorQueue[ActorQueueIndex] on.
RECURSIVE BreadthFirst(_, _, _)
BreadthFirst(LQ, JH, ActorQueueIndex) ==
    IF ActorQueueIndex >= Len(LQ[2]) THEN LQ
    ELSE LET ActorHandle == LQ[2][ActorQueueIndex + 1]
             AJ == ActorJoints(JH, ActorHandle, Len(JH))
         IN  BreadthFirst(VisitJoints(LQ, JH, ActorHandle, AJ, Len(AJ)),
                          JH, ActorQueueIndex + 1)

\* The actors after the three loops of ConditionConstraints.
LevelledActors(A, AH, JH) ==
    BreadthFirst(<< ResetLevels(A, AH, Len(AH)), InitialQueue(A, AH, Len(AH)) >>,
                 JH, 0)[1]

\* FJointHandle::UpdateLevels on every joint.
UpdateLevels(A, JH) ==
    [ j \in DOMAIN JH |->
        [JH[j] EXCEPT !.ParticleLevels =
            << A[JH[j].Actors[1]].Level, A[JH[j].Actors[2]].Level >>] ]

SimUnchanged == UNCHANGED << soaVars, jointVars, stepVars, solverVars, springVars, callVars, lateVars >>

CreateActor(bDynamic, Level) ==
    /\ Len(ActorHandles) < MaxActors
    /\ LET a == CHOOSE x \in ActorIds :
                    ~actor[x].live /\ \A y \in ActorIds : ~actor[y].live => x <= y
       IN  /\ actor' = [actor EXCEPT ![a] = NewActor(bDynamic, Level)]
           /\ ActorHandles' = Append(ActorHandles, a)
    /\ conditioned' = FALSE
    /\ UNCHANGED JointHandles
    /\ SimUnchanged

CreateJoint(Body1, Body2) ==
    /\ Len(JointHandles) < MaxJoints
    /\ JointHandles' = Append(JointHandles, NewJoint(Body1, Body2))
    /\ conditioned' = FALSE
    /\ UNCHANGED << ActorHandles, actor >>
    /\ SimUnchanged

\* DestroyJoint of the joint at index j: TArray::Remove keeps the order.
DestroyJoint(j) ==
    /\ j \in DOMAIN JointHandles
    /\ JointHandles' = SubSeq(JointHandles, 1, j - 1)
                           \o SubSeq(JointHandles, j + 1, Len(JointHandles))
    /\ conditioned' = FALSE
    /\ UNCHANGED << ActorHandles, actor >>
    /\ SimUnchanged

ConditionConstraints ==
    /\ actor' = LevelledActors(actor, ActorHandles, JointHandles)
    /\ JointHandles' = UpdateLevels(actor', JointHandles)
    /\ conditioned' = TRUE
    /\ UNCHANGED ActorHandles
    /\ SimUnchanged

SimInit ==
    /\ ActorHandles = << >>
    /\ actor = [a \in ActorIds |-> NoActor]
    /\ JointHandles = << >>
    /\ conditioned = FALSE

\* ------------------------------------------- AdvanceOneTimeStepTask::DoWork

\* The sub-step taken inside the loop is all of the time that is left.
SubStepWhole(DeltaTime, MaxDeltaTime) == DeltaTime

\* The Dt of the AdvanceOneTimeStep call inside the loop.
SubStep(DeltaTime, MaxDeltaTime) == MaxDeltaTime

\* float: the value +infinity, above every finite time.
FloatInfinity == MaxTimeTicks + MaxDeltaTicks + 1

\* float subtraction: infinity less a finite value is infinity.
FloatSub(a, b) == IF a = FloatInfinity THEN FloatInfinity ELSE a - b

\* The values of the float DeltaTime a task is constructed with.
DeltaTimes == (0 .. MaxDeltaTicks) \cup { FloatInfinity }

StepUnchanged == UNCHANGED << soaVars, jointVars, simVars, solverVars, springVars, callVars, lateVars >>

AdvanceUnchanged ==
    UNCHANGED << soaVars, jointVars, simVars, solverVars, springVars, callVars, solveVars,
                 activeVars, netVars >>

\* FPBDRigidsSolver::Reset, between two tasks.
Reset ==
    /\ pc = "Idle"
    /\ MTime' = 0
    /\ MMaxDeltaTime' = TicksPerSecond
    /\ requested' = 0
    /\ steps' = << >>
    /\ endFrameDt' = 0
    /\ MLastDt' = 0
    /\ bEnabled' = FALSE
    /\ CurrentFrame' = 0
    /\ TimeStepMultiplier' = 1
    /\ advanceCall' = [Called |-> FALSE]
    /\ UNCHANGED << pc, MDeltaTime >>
    /\ AdvanceUnchanged

\* AdvanceOneTimeStepTask(Scene, DeltaTime).
NewTask(DeltaTime) ==
    /\ pc = "Idle"
    /\ DeltaTime = FloatInfinity \/ MTime + DeltaTime <= MaxTimeTicks
    /\ MDeltaTime' = DeltaTime
    /\ requested' = DeltaTime
    /\ steps' = << >>
    /\ pc' = "Loop"
    /\ UNCHANGED << MMaxDeltaTime, MTime, endFrameDt >>
    /\ StepUnchanged

\* One turn of the while loop.
LoopStep ==
    /\ pc = "Loop"
    /\ MDeltaTime > MMaxDeltaTime
    /\ steps' = IF Len(steps) < MaxSubSteps
                THEN Append(steps, SubStep(MDeltaTime, MMaxDeltaTime))
                ELSE steps
    /\ MDeltaTime' = FloatSub(MDeltaTime, MMaxDeltaTime)
    /\ UNCHANGED << pc, MMaxDeltaTime, MTime, requested, endFrameDt >>
    /\ StepUnchanged

\* The loop is left and the remainder stepped.
FinalStep ==
    /\ pc = "Loop"
    /\ ~(MDeltaTime > MMaxDeltaTime)
    /\ steps' = Append(steps, MDeltaTime)
    /\ pc' = "EndFrame"
    /\ UNCHANGED << MDeltaTime, MMaxDeltaTime, MTime, requested, endFrameDt >>
    /\ StepUnchanged

\* EndFrame(MDeltaTime) and the advance of the solver time.
EndFrame ==
    /\ pc = "EndFrame"
    /\ endFrameDt' = MDeltaTime
    /\ MTime' = MTime + MDeltaTime
    /\ pc' = "Idle"
    /\ UNCHANGED << MDeltaTime, MMaxDeltaTime, requested, steps >>
    /\ StepUnchanged

\* ------------------- FPBDRigidsSolver: RegisterObject / UnregisterObject

nullptr == 0

\* Game-thread particles, by identity.
GTParticles == 1 .. MaxGTParticles

\* Proxy objects, by identity: no more are live than there are particle
\* handles.
ProxyIds == 1 .. MaxParticles

\* The values of ObjectType() that RegisterObject tells apart.
EParticleType == { "Static", "Kinematic", "Dynamic" }

NoProxy == [ live |-> FALSE, Type |-> "Static", Particle |-> nullptr, Handle |-> nullptr ]

\* new F...PhysicsProxy(GTParticle, nullptr)
NewProxyObject(InParticleType, GTParticle) ==
    [ live |-> TRUE, Type |-> InParticleType, Particle |-> GTParticle, Handle |-> nullptr ]

FreeProxies == { p \in ProxyIds : ~proxyObject[p].live }

\* The address operator new returns: a free one, here the lowest.
AllocProxy == CHOOSE p \in FreeProxies : \A q \in FreeProxies : p <= q

\* The proxy collections, by the particle type they are kept for.
ProxyCollections ==
    [ Dynamic   |-> RigidParticlePhysicsProxies,
      Kinematic |-> KinematicGeometryParticlePhysicsProxies,
      Static    |-> GeometryParticlePhysicsProxies ]

CommitCollections(C) ==
    /\ RigidParticlePhysicsProxies' = C.Dynamic
    /\ KinematicGeometryParticlePhysicsProxies' = C.Kinematic
    /\ GeometryParticlePhysicsProxies' = C.Static

\* The commands RegisterObject, UnregisterObject and PushPhysicsStateExec
\* enqueue, with what their lambdas capture.
RegisterCommand(GTParticle, InParticleType, ProxyBase) ==
    [ Op |-> "Register", GTParticle |-> GTParticle,
      InParticleType |-> InParticleType, Proxy |-> ProxyBase ]

UnregisterCommand(InProxy, InParticleType) ==
    [ Op |-> "Unregister", GTParticle |-> nullptr,
      InParticleType |-> InParticleType, Proxy |-> InProxy ]

PushCommand(InProxy) ==
    [ Op |-> "Push", GTParticle |-> nullptr,
      InParticleType |-> proxyObject[InProxy].Type, Proxy |-> InProxy ]

\* EnqueueCommandImmediate: the command goes to the end of the queue.
Enqueue(Q, Commands) == Q \o Commands

\* The command the physics side executes next: the oldest one.
NextCommand(Q) == Head(Q)

\* Mutant of CreateXParticles: a static particle whatever the type.
CreateStaticAlways(st, New, InParticleType) ==
    CreateParticles(st, New, "Static", FALSE, FALSE)

\* The Register command: CreateDynamicParticles(1) / CreateKinematicParticles(1)
\* / CreateStaticParticles(1), by the captured particle type.
CreateXParticles(st, New, InParticleType) ==
    CreateParticles(st, New, InParticleType, FALSE, FALSE)

\* Mutant of EvolutionDestroyParticle: the particle data are left alone.
EvolutionDestroyNothing(st, Handle) == st

\* The Unregister command: GetEvolution()->DestroyParticle(Handle).
EvolutionDestroyParticle(st, Handle) == DestroyParticle(st, Handle)

SolverUnchanged == UNCHANGED << jointVars, simVars, stepVars, springVars, callVars, lateVars >>

\* A particle object of the game thread comes to exist, at the lowest
\* identity not yet in use.
NewGTParticle(Type) ==
    /\ \E g \in GTParticles :
           /\ ObjectType[g] = "None"
           /\ \A f \in GTParticles : ObjectType[f] = "None" => g <= f
           /\ ObjectType' = [ObjectType EXCEPT ![g] = Type]
    /\ dereferenced' = {}
    /\ UNCHANGED << Proxy, proxyObject, RigidParticlePhysicsProxies,
                    KinematicGeometryParticlePhysicsProxies,
                    GeometryParticlePhysicsProxies, DirtyProxiesSet,
                    CommandQueue, GTGeometryParticle, earlyUnregister, badDestroy >>
    /\ UNCHANGED soaVars
    /\ SolverUnchanged

\* FPBDRigidsSolver::RegisterObject(GTParticle); IsParticleValid is what
\* GTParticle->IsParticleValid() answers.
RegisterObject(GTParticle, IsParticleValid) ==
    /\ ObjectType[GTParticle] # "None"
    /\ Proxy[GTParticle] = nullptr
    /\ FreeProxies # {}
    /\ Len(CommandQueue) < MaxQueue
    /\ IF ~IsParticleValid
       THEN UNCHANGED << Proxy, proxyObject, RigidParticlePhysicsProxies,
                         KinematicGeometryParticlePhysicsProxies,
                         GeometryParticlePhysicsProxies, CommandQueue >>
       ELSE LET InParticleType == ObjectType[GTParticle]
                ProxyBase == AllocProxy
            IN  /\ proxyObject' = [proxyObject EXCEPT
                       ![ProxyBase] = NewProxyObject(InParticleType, GTParticle)]
                /\ CommitCollections([ProxyCollections EXCEPT
                       ![InParticleType] = @ \cup { ProxyBase }])
                /\ Proxy' = [Proxy EXCEPT ![GTParticle] = ProxyBase]
                /\ CommandQueue' = Enqueue(CommandQueue,
                       << RegisterCommand(GTParticle, InParticleType, ProxyBase) >>)
    /\ dereferenced' = {}
    /\ UNCHANGED << ObjectType, DirtyProxiesSet, GTGeometryParticle,
                    earlyUnregister, badDestroy >>
    /\ UNCHANGED soaVars
    /\ SolverUnchanged

\* FPBDRigidsSolver::UnregisterObject(GTParticle)
UnregisterObject(GTParticle) ==
    /\ Proxy[GTParticle] # nullptr
    /\ Len(CommandQueue) < MaxQueue
    /\ LET InProxy == Proxy[GTParticle]
           InParticleType == ObjectType[GTParticle]
       IN  /\ DirtyProxiesSet' = DirtyProxiesSet \ { InProxy }
           /\ Proxy' = [Proxy EXCEPT ![GTParticle] = nullptr]
           /\ CommitCollections([ProxyCollections EXCEPT
                  ![InParticleType] = @ \ { InProxy }])
           /\ CommandQueue' = Enqueue(CommandQueue,
                  << UnregisterCommand(InProxy, InParticleType) >>)
           /\ earlyUnregister' =
                  (earlyUnregister \/ proxyObject[InProxy].Handle = nullptr)
    /\ dereferenced' = {}
    /\ UNCHANGED << ObjectType, proxyObject, GTGeometryParticle, badDestroy >>
    /\ UNCHANGED soaVars
    /\ SolverUnchanged

\* A property of a registered game-thread particle is set: its proxy is dirty.
AddDirtyProxy(GTParticle) ==
    /\ Proxy[GTParticle] # nullptr
    /\ DirtyProxiesSet' = DirtyProxiesSet \cup { Proxy[GTParticle] }
    /\ dereferenced' = {}
    /\ UNCHANGED << ObjectType, Proxy, proxyObject, RigidParticlePhysicsProxies,
                    KinematicGeometryParticlePhysicsProxies,
                    GeometryParticlePhysicsProxies, CommandQueue,
                    GTGeometryParticle, earlyUnregister, badDestroy >>
    /\ UNCHANGED soaVars
    /\ SolverUnchanged

\* FPBDRigidsSolver::PushPhysicsState(Dispatcher), with PushPhysicsStateExec
\* for every dirty proxy; bDispatcher is Dispatcher != nullptr.
PushPhysicsState(bDispatcher) ==
    LET Pushed == { p \in DirtyProxiesSet : proxyObject[p].Handle # nullptr }
    IN  /\ DirtyProxiesSet # {}
        /\ Len(CommandQueue) + Cardinality(Pushed) <= MaxQueue
        /\ DirtyProxiesSet' = DirtyProxiesSet \ Pushed
        /\ IF bDispatcher
           THEN \E order \in SeqsOf(Pushed) :
                    CommandQueue' = Enqueue(CommandQueue,
                        [k \in DOMAIN order |-> PushCommand(order[k])])
           ELSE UNCHANGED CommandQueue
        /\ dereferenced' = DirtyProxiesSet
        /\ UNCHANGED << ObjectType, Proxy, proxyObject, RigidParticlePhysicsProxies,
                        KinematicGeometryParticlePhysicsProxies,
                        GeometryParticlePhysicsProxies, GTGeometryParticle,
                        earlyUnregister, badDestroy >>
        /\ UNCHANGED soaVars
        /\ SolverUnchanged

\* The proxy pointers a loop over GetActiveParticlesView casts and calls
\* through: ActiveObject.GTGeometryParticle()->Proxy of every active particle.
ActiveProxies ==
    { IF GTGeometryParticle[h] = nullptr THEN nullptr ELSE Proxy[GTGeometryParticle[h]] :
          h \in GetActiveParticlesView }

ForEachActiveProxy ==
    /\ GetActiveParticlesView # {}
    /\ dereferenced' = ActiveProxies
    /\ UNCHANGED << ObjectType, Proxy, proxyObject, RigidParticlePhysicsProxies,
                    KinematicGeometryParticlePhysicsProxies,
                    GeometryParticlePhysicsProxies, DirtyProxiesSet,
                    CommandQueue, GTGeometryParticle, earlyUnregister, badDestroy >>
    /\ UNCHANGED soaVars
    /\ SolverUnchanged

\* FPBDRigidsSolver::BufferPhysicsResults
BufferPhysicsResults == ForEachActiveProxy

\* FPBDRigidsSolver::FlipBuffers
FlipBuffers == ForEachActiveProxy

\* FPBDRigidsSolver::UpdateGameThreadStructures
UpdateGameThreadStructures == ForEachActiveProxy

\* The command enqueued by RegisterObject.
ExecuteRegister(cmd) ==
    LET New == FreeHandles(handle, 1, 1)
    IN  /\ Len(New) = 1
        /\ CommitSoa(CreateXParticles(Store, New, cmd.InParticleType))
        /\ proxyObject' = [proxyObject EXCEPT ![cmd.Proxy].Handle = New[1]]
        /\ GTGeometryParticle' = [GTGeometryParticle EXCEPT ![New[1]] = cmd.GTParticle]
        /\ UNCHANGED badDestroy

\* The command enqueued by UnregisterObject.
ExecuteUnregister(cmd) ==
    LET Handle == proxyObject[cmd.Proxy].Handle
    IN  /\ proxyObject' = [proxyObject EXCEPT ![cmd.Proxy] = NoProxy]
        /\ IF Handle # nullptr /\ handle[Handle].live
           THEN LET st == EvolutionDestroyParticle(Store, Handle)
                IN  /\ CommitSoa(st)
                    /\ GTGeometryParticle' = [h \in Handles |->
                           IF st.handle[h].live THEN GTGeometryParticle[h] ELSE nullptr]
                    /\ UNCHANGED badDestroy
           ELSE /\ CommitSoa(Store)
                /\ badDestroy' = TRUE
                /\ UNCHANGED GTGeometryParticle

\* The command enqueued by PushPhysicsStateExec.
ExecutePush(cmd) ==
    /\ CommitSoa(Store)
    /\ UNCHANGED << proxyObject, GTGeometryParticle, badDestroy >>

\* The physics side takes the next command off the queue and executes it.
ExecuteCommand ==
    /\ CommandQueue # << >>
    /\ LET cmd == NextCommand(CommandQueue)
       IN  /\ CommandQueue' = Tail(CommandQueue)
           /\ CASE cmd.Op = "Register"   -> ExecuteRegister(cmd)
                [] cmd.Op = "Unregister" -> ExecuteUnregister(cmd)
                [] OTHER                 -> ExecutePush(cmd)
    /\ dereferenced' = {}
    /\ UNCHANGED << ObjectType, Proxy, RigidParticlePhysicsProxies,
                    KinematicGeometryParticlePhysicsProxies,
                    GeometryParticlePhysicsProxies, DirtyProxiesSet,
                    earlyUnregister >>
    /\ UNCHANGED << deactivated, lastSwitch >>
    /\ SolverUnchanged

\* -------------------------------------- TPBDRigidDynamicSpringConstraints
\* The bodies are spheres on a line. A rotation is the identity or the half
\* turn that reverses the line, so that a rotated vector is Q * v and the
\* inverse of Q is Q.

Stiffness == 2

\* Radius of every sphere.
SphereRadius == 1

Rotations == { 1, -1 }

Abs(x) == IF x < 0 THEN -x ELSE x

\* TRotation::RotateVector
RotateVector(Q, v) == Q * v

\* TRotation::Inverse
Inverse(Q) == Q

\* A particle as the springs see it: Geometry() != nullptr, AsDynamic() !=
\* nullptr, InvM(), P() or X(), Q() or R().
SpringBody(bGeometry, bDynamic, InvM, P, Q) ==
    [ Geometry |-> bGeometry, Dynamic |-> bDynamic, InvM |-> InvM, P |-> P, Q |-> Q ]

\* Twice the signed distance of a sphere at the local point x2 / 2.
PhiTwice(x2) == Abs(x2) - 2 * SphereRadius

\* The normal PhiWithNormal returns with it, in the sphere's local frame; at
\* the centre it is the first axis.
PhiNormal(x2) == IF x2 < 0 THEN -1 ELSE 1

\* The world-space end points of a spring and their Euclidean separation,
\* recomputed from the current body transforms.
WorldSpaceX1(c, Distance) == RotateVector(c[1].Q, Distance[1]) + c[1].P

WorldSpaceX2(c, Distance) == RotateVector(c[2].Q, Distance[2]) + c[2].P

SpringSeparation(c, Distance) == Abs(WorldSpaceX2(c, Distance) - WorldSpaceX1(c, Distance))

\* Mutant of SpringTooFar: the spring goes at the creation threshold.
SpringTooFarAtThreshold(Distance) == Distance > CreationThreshold

\* UpdatePositionBasedState: the test that deletes a spring.
SpringTooFar(Distance) == Distance > CreationThreshold * 2

\* UpdatePositionBasedState: the delete loop over the spring indices
\* NumSprings - 1 down to 0 (k is SpringIndex + 1).
RECURSIVE DeleteSprings(_, _, _, _)
DeleteSprings(c, D, SD, k) ==
    IF k = 0 THEN [ Distances |-> D, SpringDistances |-> SD ]
    ELSE IF SpringTooFar(SpringSeparation(c, D[k]))
    THEN DeleteSprings(c, RemoveAtSwap(D, k - 1), RemoveAtSwap(SD, k - 1), k - 1)
    ELSE DeleteSprings(c, D, SD, k - 1)

\* UpdatePositionBasedState: the bounding boxes of the two spheres, the first
\* brought into the frame of the second, both thickened by CreationThreshold,
\* intersect.
BoxesIntersect(c) ==
    Abs(RotateVector(Inverse(c[2].Q), c[1].P - c[2].P))
        <= (SphereRadius + CreationThreshold) + (SphereRadius + CreationThreshold)

\* Twice the midpoint of the two body origins.
MidpointTwice(c) == c[1].P + c[2].P

\* Twice Phi1 and twice Phi2, sampled at the midpoint in each body's frame.
Phi1Twice(c) == PhiTwice(RotateVector(Inverse(c[1].Q), MidpointTwice(c) - 2 * c[1].P))

Phi2Twice(c) == PhiTwice(RotateVector(Inverse(c[2].Q), MidpointTwice(c) - 2 * c[2].P))

\* Normal1 and Normal2; both are transformed by Transform2.
Normal1(c) ==
    RotateVector(c[2].Q, PhiNormal(RotateVector(Inverse(c[1].Q), MidpointTwice(c) - 2 * c[1].P)))

Normal2(c) ==
    RotateVector(c[2].Q, PhiNormal(RotateVector(Inverse(c[2].Q), MidpointTwice(c) - 2 * c[2].P)))

\* Mutant of GeometriesTooFar: nothing is too far.
GeometriesNeverTooFar(c) == FALSE

\* UpdatePositionBasedState: (Phi1 + Phi2) > CreationThreshold
GeometriesTooFar(c) == Phi1Twice(c) + Phi2Twice(c) > 2 * CreationThreshold

\* Location0 and Location1 of a new spring.
Location0(c) == (MidpointTwice(c) - Phi1Twice(c) * Normal1(c)) \div 2

Location1(c) == (MidpointTwice(c) - Phi2Twice(c) * Normal2(c)) \div 2

\* The Distance of a new spring: both locations are rotated by the inverse
\* of Q0.
NewDistance(c) ==
    << RotateVector(Inverse(c[1].Q), Location0(c) - c[1].P),
       RotateVector(Inverse(c[1].Q), Location1(c) - c[2].P) >>

NewSpringDistance(c) == Abs(Location0(c) - Location1(c))

\* Mutant of SpringsFull: there is always room for one more spring.
SpringsNeverFull(Num) == FALSE

\* UpdatePositionBasedState: SpringDistances[ConstraintIndex].Num() == MaxSprings
SpringsFull(Num) == Num = MaxSprings

\* UpdatePositionBasedState: whether the body of the loop gets to add a
\* spring, given the springs the delete loop left.
CreatesSpring(c, NumLeft) ==
    /\ ~SpringsFull(NumLeft)
    /\ BoxesIntersect(c)
    /\ ~GeometriesTooFar(c)

\* UpdatePositionBasedState: one turn of the loop over the constraints.
UpdateConstraint(c, D, SD) ==
    IF ~c[1].Geometry \/ ~c[2].Geometry
    THEN [ Distances |-> D, SpringDistances |-> SD ]
    ELSE LET left == DeleteSprings(c, D, SD, Len(SD))
         IN  IF CreatesSpring(c, Len(left.SpringDistances))
             THEN [ Distances |-> Append(left.Distances, NewDistance(c)),
                    SpringDistances |-> Append(left.SpringDistances, NewSpringDistance(c)) ]
             ELSE left

\* The springs of a constraint, each with its recomputed separation.
SpringList(c, D, SD) ==
    [k \in DOMAIN SD |->
        [ Distance |-> D[k], SpringDistance |-> SD[k],
          Separation |-> SpringSeparation(c, D[k]) ]]

\* What one turn of the loop did to a constraint, for the record: the
\* springs before it, the springs its delete loop left, and whether it added
\* a spring.
UpdateEvent(c, D, SD) ==
    LET after == UpdateConstraint(c, D, SD)
        both  == c[1].Geometry /\ c[2].Geometry
        left  == IF both THEN DeleteSprings(c, D, SD, Len(SD))
                 ELSE [ Distances |-> D, SpringDistances |-> SD ]
    IN  [ Updated  |-> TRUE,
          Geometry |-> both,
          Pre      |-> SpringList(c, D, SD),
          Left     |-> SpringList(c, left.Distances, left.SpringDistances),
          Created  |-> Len(after.SpringDistances) > Len(left.SpringDistances),
          GapTwice |-> Phi1Twice(c) + Phi2Twice(c) ]

NoEvent ==
    [ Updated |-> FALSE, Geometry |-> FALSE, Pre |-> << >>, Left |-> << >>,
      Created |-> FALSE, GapTwice |-> 0 ]

\* GetDelta: what the computation of one spring's correction comes to.
GetDeltaOutcome(c, Distance, SpringDistance) ==
    LET Difference == WorldSpaceX2(c, Distance) - WorldSpaceX1(c, Distance)
        Dist       == Abs(Difference)
        InvM0      == IF c[1].Dynamic THEN c[1].InvM ELSE 0
        InvM1      == IF c[2].Dynamic THEN c[2].InvM ELSE 0
    IN  IF ~c[1].Dynamic /\ ~c[2].Dynamic THEN [ Fault |-> "None", Delta |-> 0 ]
        ELSE IF Dist = 0 THEN [ Fault |-> "CheckDistance", Delta |-> 0 ]
        ELSE IF InvM0 + InvM1 = 0 THEN [ Fault |-> "DivisionByZero", Delta |-> 0 ]
        ELSE [ Fault |-> "None",
               Delta |-> (Stiffness * ((Dist - SpringDistance) * (Difference \div Dist)))
                             \div (InvM0 + InvM1) ]

\* ApplySingle: the loop over the springs of one constraint from SpringIndex
\* k - 1 on; the positions move with every spring.
RECURSIVE ApplySprings(_, _, _, _)
ApplySprings(c, D, SD, k) ==
    IF k > Len(SD) THEN [ Fault |-> "None", c |-> c ]
    ELSE LET got == GetDeltaOutcome(c, D[k], SD[k])
             c1  == IF c[1].Dynamic
                    THEN [c EXCEPT ![1].P = @ + c[1].InvM * got.Delta]
                    ELSE c
             c2  == IF c[2].Dynamic
                    THEN [c1 EXCEPT ![2].P = @ - c[2].InvM * got.Delta]
                    ELSE c1
         IN  IF got.Fault # "None" THEN [ Fault |-> got.Fault, c |-> c ]
             ELSE ApplySprings(c2, D, SD, k + 1)

\* Where the centre of a sphere can be.
SpringPositions == 0 .. (2 * SphereRadius + 2 * CreationThreshold + MaxBeyond)

SpringsUnchanged == UNCHANGED << soaVars, jointVars, simVars, stepVars, solverVars, callVars, lateVars >>

\* A constraint between two particles is added, with no springs yet.
AddSpringConstraint(Body0, Body1) ==
    /\ applyFault = "None"
    /\ Constraints' = Append(Constraints, << Body0, Body1 >>)
    /\ Distances' = Append(Distances, << >>)
    /\ SpringDistances' = Append(SpringDistances, << >>)
    /\ springEvent' = [i \in DOMAIN Constraints' |-> NoEvent]
    /\ UNCHANGED applyFault
    /\ SpringsUnchanged

\* A particle of a constraint is moved.
SetSpringBodyX(i, b, X) ==
    /\ applyFault = "None"
    /\ i \in DOMAIN Constraints
    /\ Constraints[i][b].P # X
    /\ Constraints' = [Constraints EXCEPT ![i][b].P = X]
    /\ springEvent' = [j \in DOMAIN Constraints |-> NoEvent]
    /\ UNCHANGED << Distances, SpringDistances, applyFault >>
    /\ SpringsUnchanged

\* TPBDRigidDynamicSpringConstraints::UpdatePositionBasedState
UpdatePositionBasedState ==
    /\ applyFault = "None"
    /\ Constraints # << >>
    /\ Distances' = [i \in DOMAIN Constraints |->
           UpdateConstraint(Constraints[i], Distances[i], SpringDistances[i]).Distances]
    /\ SpringDistances' = [i \in DOMAIN Constraints |->
           UpdateConstraint(Constraints[i], Distances[i], SpringDistances[i]).SpringDistances]
    /\ springEvent' = [i \in DOMAIN Constraints |->
           UpdateEvent(Constraints[i], Distances[i], SpringDistances[i])]
    /\ UNCHANGED << Constraints, applyFault >>
    /\ SpringsUnchanged

\* TPBDRigidDynamicSpringConstraints::ApplySingle(Dt, ConstraintIndex), called
\* where check(PBDRigid0 || PBDRigid1) passes.
ApplySingle(i) ==
    /\ applyFault = "None"
    /\ i \in DOMAIN Constraints
    /\ Constraints[i][1].Dynamic \/ Constraints[i][2].Dynamic
    /\ SpringDistances[i] # << >>
    /\ LET got == ApplySprings(Constraints[i], Distances[i], SpringDistances[i], 1)
       IN  /\ got.c[1].P \in SpringPositions
           /\ got.c[2].P \in SpringPositions
           /\ Constraints' = [Constraints EXCEPT ![i] = got.c]
           /\ applyFault' = got.Fault
    /\ springEvent' = [j \in DOMAIN Constraints |-> NoEvent]
    /\ UNCHANGED << Distances, SpringDistances >>
    /\ SpringsUnchanged

\* ------------------------------------------------------------ FPBDJointUtilities

EJointMotionType == {"Free", "Limited", "Locked"}

\* Values a solver-side override is given: unset (zero), negative, positive.
StiffnessOverrides == {-1, 0, 2}
SoftOverrides == {-1, 0, 3}

\* FPBDJointSolverSettings, the fields the stiffness functions read.
StiffnessSolverSettings ==
    [Stiffness : StiffnessOverrides,
     SoftLinearStiffness : SoftOverrides,
     SoftAngularStiffness : SoftOverrides]

\* FPBDJointSettings::Motion, the fields the stiffness functions read.  The
\* per-joint values are pairwise distinct and differ from every override.
StiffnessJointSettings ==
    [Stiffness : {5},
     SoftLinearStiffness : {7},
     SoftTwistStiffness : {11},
     SoftSwingStiffness : {13},
     bSoftLinearLimitsEnabled : BOOLEAN,
     bSoftTwistLimitsEnabled : BOOLEAN,
     bSoftSwingLimitsEnabled : BOOLEAN,
     LinearMotionTypes : [1 .. 3 -> EJointMotionType],
     AngularMotionTypes : [{"Twist", "Swing1", "Swing2"} -> EJointMotionType]]

\* Mutant of SolverStiffness: the override is never taken.
SolverStiffnessJointOnly(SolverSettings, JointSettings) == JointSettings.Stiffness

\* (SolverSettings.Stiffness > 0) ? SolverSettings.Stiffness : JointSettings.Motion.Stiffness
SolverStiffness(SolverSettings, JointSettings) ==
    IF SolverSettings.Stiffness > 0
    THEN SolverSettings.Stiffness
    ELSE JointSettings.Stiffness

SoftLinearSolverStiffness(SolverSettings, JointSettings) ==
    IF SolverSettings.SoftLinearStiffness > 0
    THEN SolverSettings.SoftLinearStiffness
    ELSE JointSettings.SoftLinearStiffness

SoftTwistSolverStiffness(SolverSettings, JointSettings) ==
    IF SolverSettings.SoftAngularStiffness > 0
    THEN SolverSettings.SoftAngularStiffness
    ELSE JointSettings.SoftTwistStiffness

SoftSwingSolverStiffness(SolverSettings, JointSettings) ==
    IF SolverSettings.SoftAngularStiffness > 0
    THEN SolverSettings.SoftAngularStiffness
    ELSE JointSettings.SoftSwingStiffness

\* Mutant of LinearIsSoft: the flag alone decides.
LinearIsSoftWhenEnabled(JointSettings) == JointSettings.bSoftLinearLimitsEnabled

LinearIsSoft(JointSettings) ==
    /\ JointSettings.bSoftLinearLimitsEnabled
    /\ \/ JointSettings.LinearMotionTypes[1] = "Limited"
       \/ JointSettings.LinearMotionTypes[2] = "Limited"
       \/ JointSettings.LinearMotionTypes[3] = "Limited"

TwistIsSoft(JointSettings) ==
    /\ JointSettings.bSoftTwistLimitsEnabled
    /\ JointSettings.AngularMotionTypes["Twist"] = "Limited"

SwingIsSoft(JointSettings) ==
    /\ JointSettings.bSoftSwingLimitsEnabled
    /\ \/ JointSettings.AngularMotionTypes["Swing1"] = "Limited"
       \/ JointSettings.AngularMotionTypes["Swing2"] = "Limited"

GetLinearStiffness(SolverSettings, JointSettings) ==
    IF LinearIsSoft(JointSettings)
    THEN SolverStiffness(SolverSettings, JointSettings)
             * SoftLinearSolverStiffness(SolverSettings, JointSettings)
    ELSE SolverStiffness(SolverSettings, JointSettings)

GetTwistStiffness(SolverSettings, JointSettings) ==
    IF TwistIsSoft(JointSettings)
    THEN SolverStiffness(SolverSettings, JointSettings)
             * SoftTwistSolverStiffness(SolverSettings, JointSettings)
    ELSE SolverStiffness(SolverSettings, JointSettings)

GetSwingStiffness(SolverSettings, JointSettings) ==
    IF SwingIsSoft(JointSettings)
    THEN SolverStiffness(SolverSettings, JointSettings)
             * SoftSwingSolverStiffness(SolverSettings, JointSettings)
    ELSE SolverStiffness(SolverSettings, JointSettings)

NoStiffnessCall == [Called |-> FALSE]

\* One evaluation of the three stiffness functions for a joint: the
\* arguments, the locals of the functions, and the values returned.
StiffnessCall(SolverSettings, JointSettings) ==
    [Called |-> TRUE,
     SolverSettings |-> SolverSettings,
     JointSettings |-> JointSettings,
     SolverStiffness |-> SolverStiffness(SolverSettings, JointSettings),
     SoftLinear |-> SoftLinearSolverStiffness(SolverSettings, JointSettings),
     SoftTwist |-> SoftTwistSolverStiffness(SolverSettings, JointSettings),
     SoftSwing |-> SoftSwingSolverStiffness(SolverSettings, JointSettings),
     bIsSoft |-> [Linear |-> LinearIsSoft(JointSettings),
                  Twist |-> TwistIsSoft(JointSettings),
                  Swing |-> SwingIsSoft(JointSettings)],
     Linear |-> GetLinearStiffness(SolverSettings, JointSettings),
     Twist |-> GetTwistStiffness(SolverSettings, JointSettings),
     Swing |-> GetSwingStiffness(SolverSettings, JointSettings)]

CallsUnchanged ==
    UNCHANGED << soaVars, jointVars, simVars, stepVars, solverVars, springVars, lateVars >>

GetStiffness(SolverSettings, JointSettings) ==
    /\ ~stiffnessCall.Called
    /\ stiffnessCall' = StiffnessCall(SolverSettings, JointSettings)
    /\ UNCHANGED frameCall
    /\ CallsUnchanged

StiffnessReturn ==
    /\ stiffnessCall.Called
    /\ stiffnessCall' = NoStiffnessCall
    /\ UNCHANGED frameCall
    /\ CallsUnchanged

\* ------------------------------------------------------------ AddConstraint from a world-space frame

\* Vectors are triples of integers.  A rotation is one of the rotations of
\* the cube, written as the images of the three axes: Q[i] = k says that
\* axis i goes to axis k, Q[i] = -k that it goes to the opposite of axis k.
Sgn(x) == IF x < 0 THEN -1 ELSE 1

AxisTo(Q, k) == CHOOSE i \in 1 .. 3 : Abs(Q[i]) = k

\* TRotation::RotateVector in three dimensions
RotateVector3(Q, v) == [k \in 1 .. 3 |-> Sgn(Q[AxisTo(Q, k)]) * v[AxisTo(Q, k)]]

\* TRotation::Inverse in three dimensions
Inverse3(Q) == [k \in 1 .. 3 |-> Sgn(Q[AxisTo(Q, k)]) * AxisTo(Q, k)]

\* TRotation operator*: A * B turns by B first and then by A.
RotationMultiply(A, B) == [i \in 1 .. 3 |-> Sgn(B[i]) * A[Abs(B[i])]]

VectorSubtract(a, b) == [k \in 1 .. 3 |-> a[k] - b[k]]

VectorAdd(a, b) == [k \in 1 .. 3 |-> a[k] + b[k]]

FRigidTransform3(Translation, Rotation) ==
    [Translation |-> Translation, Rotation |-> Rotation]

\* FTransform operator*: A * B applies A first and then B.
TransformMultiply(A, B) ==
    FRigidTransform3(VectorAdd(RotateVector3(B.Rotation, A.Translation), B.Translation),
                     RotationMultiply(B.Rotation, A.Rotation))

\* Identity, a quarter turn about the third axis, a half turn about the first.
FrameRotations == { << 1, 2, 3 >>, << 2, -1, 3 >>, << 1, -2, -3 >> }

FramePositions == { << 0, 0, 0 >>, << 1, 0, 0 >>, << 0, 2, 0 >> }

\* What AddConstraint reads of a particle: X() and R().
FrameBodies == [X : FramePositions, R : FrameRotations]

WorldFrames == [Translation : FramePositions, Rotation : FrameRotations]

\* The frame AddConstraint stores for a body.
LocalConstraintFrame(WorldConstraintFrame, Body) ==
    FRigidTransform3(VectorSubtract(WorldConstraintFrame.Translation, Body.X),
                     RotationMultiply(WorldConstraintFrame.Rotation, Inverse3(Body.R)))

NoFrameCall == [Called |-> FALSE]

\* AddConstraint(InConstrainedParticles, WorldConstraintFrame) with the
\* particles in the state Bodies: the two frames, then the constraint is
\* added with them as its settings.
AddConstraintWorldFrame(InConstrainedParticles, Bodies, WorldConstraintFrame) ==
    LET ConstraintFrames ==
            << LocalConstraintFrame(WorldConstraintFrame, Bodies[1]),
               LocalConstraintFrame(WorldConstraintFrame, Bodies[2]) >>
        JointSettings == [ConstraintFrames |-> ConstraintFrames]
        c == AddConstraint(Container, InConstrainedParticles, JointSettings)
    IN  /\ Len(ConstraintHandles) < MaxConstraints
        /\ ConstraintHandles' = c.Handles
        /\ ConstraintParticles' = c.Particles
        /\ ConstraintSettings' = c.JointSettings
        /\ ConstraintStates' = c.States
        /\ ConstraintIndex' = c.Index
        /\ createdFor' = [createdFor EXCEPT ![AllocHandle(Container)] =
                             [ Particles |-> InConstrainedParticles,
                               JointSettings |-> JointSettings,
                               ParticleLevels |-> FPBDJointState.ParticleLevels ]]
        /\ removedParticles' = {}
        /\ lastCall' = NoCall
        /\ frameCall' = [Called |-> TRUE,
                         Handle |-> AllocHandle(Container),
                         Bodies |-> Bodies,
                         WorldConstraintFrame |-> WorldConstraintFrame]
        /\ UNCHANGED << Settings, stiffnessCall >>
        /\ UNCHANGED << soaVars, simVars, stepVars, solverVars, springVars, lateVars >>

CallsInit ==
    /\ stiffnessCall = NoStiffnessCall
    /\ frameCall = NoFrameCall

\* ------------------------------------------------------------ FPBDRigidsSolver::AdvanceSolverBy

NoAdvanceCall == [Called |-> FALSE]

\* The Dt of the AdvanceOneTimeStep calls of one DoWork, in their order.
RECURSIVE SubSteps(_, _)
SubSteps(DeltaTime, MaxDeltaTime) ==
    IF DeltaTime > MaxDeltaTime
    THEN << SubStep(DeltaTime, MaxDeltaTime) >>
             \o SubSteps(DeltaTime - MaxDeltaTime, MaxDeltaTime)
    ELSE << DeltaTime >>

\* MDeltaTime when the loop of DoWork is left.
RECURSIVE LeftAfterLoop(_, _)
LeftAfterLoop(DeltaTime, MaxDeltaTime) ==
    IF DeltaTime > MaxDeltaTime
    THEN LeftAfterLoop(DeltaTime - MaxDeltaTime, MaxDeltaTime)
    ELSE DeltaTime

RECURSIVE SumOf(_)
SumOf(s) == IF s = << >> THEN 0 ELSE s[1] + SumOf(Tail(s))

\* AdvanceOneTimeStepTask(this, DeltaTime).DoWork() as one call, on the
\* solver's time and frame and on the tally of what has been stepped.
DoWork(s, DeltaTime, MaxDeltaTime) ==
    [ Time |-> s.Time + LeftAfterLoop(DeltaTime, MaxDeltaTime),
      Frame |-> s.Frame + 1,
      Steps |-> SubSteps(DeltaTime, MaxDeltaTime),
      Stepped |-> s.Stepped + SumOf(SubSteps(DeltaTime, MaxDeltaTime)),
      Advances |-> s.Advances + Len(SubSteps(DeltaTime, MaxDeltaTime)),
      EndFrameDt |-> LeftAfterLoop(DeltaTime, MaxDeltaTime) ]

\* The loop of AdvanceSolverBy, i turns of it.
RECURSIVE AdvanceLoop(_, _, _, _)
AdvanceLoop(i, s, DeltaTime, MaxDeltaTime) ==
    IF i = 0 THEN s
    ELSE DoWork(AdvanceLoop(i - 1, s, DeltaTime, MaxDeltaTime), DeltaTime, MaxDeltaTime)

\* FPBDRigidsSolver::SetEnabled
SetEnabled(bEnabledIn) ==
    /\ pc = "Idle"
    /\ bEnabled' = bEnabledIn
    /\ advanceCall' = NoAdvanceCall
    /\ UNCHANGED << TimeStepMultiplier, CurrentFrame, MLastDt, stepVars >>
    /\ AdvanceUnchanged

\* FPBDRigidsSolver::SetTimeStepMultiplier
SetTimeStepMultiplier(Multiplier) ==
    /\ pc = "Idle"
    /\ TimeStepMultiplier' = Multiplier
    /\ advanceCall' = NoAdvanceCall
    /\ UNCHANGED << bEnabled, CurrentFrame, MLastDt, stepVars >>
    /\ AdvanceUnchanged

\* FPBDRigidsSolver::AdvanceSolverBy(DeltaTime), every task of it run to its
\* end.
AdvanceSolverBy(DeltaTime) ==
    LET NumTimeSteps == TimeStepMultiplier
        before == [ Time |-> MTime, Frame |-> CurrentFrame, Steps |-> steps,
                    Stepped |-> 0, Advances |-> 0, EndFrameDt |-> endFrameDt ]
        after == IF bEnabled
                 THEN AdvanceLoop(NumTimeSteps, before, DeltaTime, MMaxDeltaTime)
                 ELSE before
    IN  /\ pc = "Idle"
        /\ MMaxDeltaTime > 0
        /\ MTime + NumTimeSteps * DeltaTime <= MaxTimeTicks
        /\ CurrentFrame + NumTimeSteps <= MaxFrames
        /\ MLastDt' = IF bEnabled THEN DeltaTime ELSE MLastDt
        /\ MTime' = after.Time
        /\ CurrentFrame' = after.Frame
        /\ steps' = after.Steps
        /\ endFrameDt' = after.EndFrameDt
        /\ requested' = IF bEnabled /\ NumTimeSteps > 0 THEN DeltaTime ELSE requested
        /\ MDeltaTime' = IF bEnabled /\ NumTimeSteps > 0 THEN after.EndFrameDt ELSE MDeltaTime
        /\ advanceCall' = [ Called |-> TRUE,
                            DeltaTime |-> DeltaTime,
                            Enabled |-> bEnabled,
                            NumTimeSteps |-> NumTimeSteps,
                            Time |-> MTime,
                            Frame |-> CurrentFrame,
                            Stepped |-> after.Stepped,
                            Advances |-> after.Advances ]
        /\ UNCHANGED << pc, MMaxDeltaTime, bEnabled, TimeStepMultiplier >>
        /\ AdvanceUnchanged

AdvanceInit ==
    /\ bEnabled = FALSE
    /\ TimeStepMultiplier = 1
    /\ CurrentFrame = 0
    /\ MLastDt = 0
    /\ advanceCall = NoAdvanceCall

\* ------------------------------------------------------------ SolvePosition, SolveVelocity, ProjectPosition

\* The particles of the solved constraint, ConstraintParticles[ConstraintIndex],
\* and a particle that no constraint refers to.
SolvedPair == << 1, 2 >>

Bystander == 3

SolveParticleIds == { SolvedPair[1], SolvedPair[2], Bystander }

\* Index0 and Index1 as positions of a pair counted from one: the solves
\* take the second particle of the pair as their body 0.
Index0 == 2
Index1 == 1

\* An orientation is an angle and the sign of the quaternion that stands for it.
SolveParticle(bDynamic, InvM, QSign) ==
    [ Dynamic |-> bDynamic, InvM |-> InvM, InvI |-> InvM,
      P |-> 0, Q |-> [Angle |-> 0, Sign |-> QSign], V |-> 0, W |-> 0 ]

\* TGenericParticleHandle: a particle that is not dynamic has no inverse mass.
SolveParticleSpace ==
    { SolveParticle(TRUE, m, s) : m \in 1 .. 2, s \in {1, -1} }
        \cup { SolveParticle(FALSE, 0, s) : s \in {1, -1} }

\* ParticleLevels of the solved constraint.
SolveLevels == { << INDEX_NONE, INDEX_NONE >>, << 0, 1 >>, << 1, 0 >>, << 1, 1 >>, << INDEX_NONE, 0 >> }

\* Settings.LinearProjection / AngularProjection and the joint's own.
ProjectionSettings ==
    [ LinearProjection : {0, 1}, AngularProjection : {0, 1} ]

JointProjections ==
    [ LinearProjection : {-1, 0, 1}, AngularProjection : {0, 1},
      bLinearConstrained : BOOLEAN ]

NoSolveCall == [ pc |-> "Idle", Op |-> "None" ]

\* FRotation3::EnforceShortestArcWith: the quaternion is negated if it is on
\* the other half of the sphere.
EnforceShortestArcWith(Q, Other) ==
    IF Q.Sign # Other.Sign THEN [Q EXCEPT !.Sign = Other.Sign] ELSE Q

\* The locals P, Q, V, W, InvM, InvIL of body k as read from its particle.
WorkingCopy(particle) ==
    [ P |-> particle.P, Q |-> particle.Q, V |-> particle.V, W |-> particle.W,
      InvM |-> particle.InvM, InvIL |-> particle.InvI ]

\* The particle behind body 0 and body 1 of the solves.
BodyParticle(k) == IF k = 0 THEN SolvedPair[Index0] ELSE SolvedPair[Index1]

\* The ApplyJoint...Constraint functions of one pair iteration of
\* SolvePosition: a body that has inverse mass is moved and its velocity
\* corrected with it.
ApplyPositionConstraints(w) ==
    IF w.InvM > 0
    THEN [w EXCEPT !.P = @ + 1, !.Q.Angle = @ + 1, !.V = @ + 1, !.W = @ + 1]
    ELSE w

\* The ApplyJoint...VelocityConstraint functions of one pair iteration of
\* SolveVelocity.
ApplyVelocityConstraints(w) ==
    IF w.InvM > 0 THEN [w EXCEPT !.V = @ + 1, !.W = @ + 1] ELSE w

\* The ApplyJoint...Projection functions of ProjectPosition.
ApplyProjections(w, LinearProjectionFactor, AngularProjectionFactor, JointSettings) ==
    LET a == IF AngularProjectionFactor > 0 /\ w.InvM > 0
             THEN [w EXCEPT !.Q.Angle = @ + 1] ELSE w
    IN  IF LinearProjectionFactor > 0 /\ JointSettings.bLinearConstrained /\ a.InvM > 0
        THEN [a EXCEPT !.P = @ + 1] ELSE a

\* In place of ProjectionFactor: the joint's own setting is not looked at.
ProjectionFactorFull(Override, Setting) == IF Override > 0 THEN Override ELSE 1

\* In place of FreezeClosest: the body further from the root is frozen.
FreezeFurthest(w, Level, OtherLevel) ==
    IF Level > OtherLevel THEN [w EXCEPT !.InvM = 0, !.InvIL = 0] ELSE w

\* ProjectPosition: LinearProjectionFactor and AngularProjectionFactor.
ProjectionFactor(Override, Setting) == IF Override > 0 THEN Override ELSE Setting

\* ProjectPosition: freeze the closest to kinematic connection if there is
\* a difference.
FreezeClosest(w, Level, OtherLevel) ==
    IF Level < OtherLevel THEN [w EXCEPT !.InvM = 0, !.InvIL = 0] ELSE w

SolveUnchanged ==
    UNCHANGED << soaVars, jointVars, simVars, stepVars, solverVars, springVars,
                 callVars, advanceVars, activeVars, netVars >>

\* The particles are set up between two solves.
SetSolveParticles(a, b) ==
    /\ solveCall.pc = "Idle"
    /\ SolveParticles' = [SolveParticles EXCEPT ![SolvedPair[1]] = a, ![SolvedPair[2]] = b]
    /\ solveCall' = NoSolveCall
    /\ SolveUnchanged

\* The locals of a solve as read from the particles, body 1 turned onto the
\* shortest arc with body 0.
ReadBodies ==
    LET w0 == WorkingCopy(SolveParticles[BodyParticle(0)])
        w1 == WorkingCopy(SolveParticles[BodyParticle(1)])
    IN  << w0, [w1 EXCEPT !.Q = EnforceShortestArcWith(w1.Q, w0.Q)] >>

\* SolvePosition / SolveVelocity up to the pair-iteration loop.
BeginSolve(Op, NumPairIts, ParticleLevels) ==
    /\ solveCall.pc = "Idle"
    /\ solveCall' = [ pc |-> "Loop", Op |-> Op, NumPairIts |-> NumPairIts, PairIt |-> 0,
                      ParticleLevels |-> ParticleLevels,
                      Work |-> ReadBodies,
                      Before |-> SolveParticles,
                      Writes |-> [p \in SolveParticleIds |-> 0],
                      Partial |-> FALSE ]
    /\ UNCHANGED SolveParticles
    /\ SolveUnchanged

\* One turn of the pair-iteration loop, on the locals.
PairIterationWork(call) ==
    IF call.Op = "SolveVelocity"
    THEN << ApplyVelocityConstraints(call.Work[1]), ApplyVelocityConstraints(call.Work[2]) >>
    ELSE << ApplyPositionConstraints(call.Work[1]), ApplyPositionConstraints(call.Work[2]) >>

\* What a particle holds after its body's locals have been stored in it.
StoredIn(particle, w, Fields) ==
    [ particle EXCEPT
        !.P = IF "P" \in Fields THEN w.P ELSE @,
        !.Q = IF "Q" \in Fields THEN w.Q ELSE @,
        !.V = IF "V" \in Fields THEN w.V ELSE @,
        !.W = IF "W" \in Fields THEN w.W ELSE @ ]

\* In place of PairIterationStores: every pair iteration stores its result.
PairIterationStoresThrough(particles, Work) ==
    [ p \in SolveParticleIds |->
        IF p = BodyParticle(0) THEN StoredIn(particles[p], Work[1], {"P", "Q", "V", "W"})
        ELSE IF p = BodyParticle(1) THEN StoredIn(particles[p], Work[2], {"P", "Q", "V", "W"})
        ELSE particles[p] ]

\* A pair iteration that does not store anything in the particles.
PairIterationStores(particles, Work) == particles

PairIteration ==
    /\ solveCall.pc = "Loop"
    /\ solveCall.Op \in {"SolvePosition", "SolveVelocity"}
    /\ solveCall.PairIt < solveCall.NumPairIts
    /\ LET Work == PairIterationWork(solveCall)
           after == PairIterationStores(SolveParticles, Work)
       IN  /\ SolveParticles' = after
           /\ solveCall' = [ solveCall EXCEPT !.Work = Work, !.PairIt = @ + 1,
                                 !.Partial = @ \/ after # SolveParticles ]
    /\ SolveUnchanged

\* In place of Rigid: the particle is written whatever it is.
RigidOrNot(particles, k) == BodyParticle(k)

\* The particle that "Update the particles" writes for a body: AsDynamic().
Rigid(particles, k) == IF particles[BodyParticle(k)].Dynamic THEN BodyParticle(k) ELSE nullptr

\* "Update the particles" with the fields the solve sets.
UpdateTheParticles(particles, Work, Fields) ==
    [ p \in SolveParticleIds |->
        IF p = Rigid(particles, 1) THEN StoredIn(particles[p], Work[2], Fields)
        ELSE IF p = Rigid(particles, 0) THEN StoredIn(particles[p], Work[1], Fields)
        ELSE particles[p] ]

WrittenBy(particles) ==
    [ p \in SolveParticleIds |->
        IF p \in { Rigid(particles, 0), Rigid(particles, 1) } THEN 1 ELSE 0 ]

\* SolvePosition / SolveVelocity after the loop.
SolveUpdate ==
    /\ solveCall.pc = "Loop"
    /\ solveCall.Op \in {"SolvePosition", "SolveVelocity"}
    /\ ~(solveCall.PairIt < solveCall.NumPairIts)
    /\ SolveParticles' = UpdateTheParticles(SolveParticles, solveCall.Work, {"P", "Q", "V", "W"})
    /\ solveCall' = [ solveCall EXCEPT !.pc = "Idle", !.Writes = WrittenBy(SolveParticles) ]
    /\ SolveUnchanged

\* ProjectPosition, as one call.
ProjectPosition(SolverSettings, JointSettings, ParticleLevels) ==
    LET LinearProjectionFactor ==
            ProjectionFactor(SolverSettings.LinearProjection, JointSettings.LinearProjection)
        AngularProjectionFactor ==
            ProjectionFactor(SolverSettings.AngularProjection, JointSettings.AngularProjection)
        Level0 == ParticleLevels[Index0]
        Level1 == ParticleLevels[Index1]
        w0 == FreezeClosest(WorkingCopy(SolveParticles[BodyParticle(0)]), Level0, Level1)
        w1 == FreezeClosest(WorkingCopy(SolveParticles[BodyParticle(1)]), Level1, Level0)
        Work == << ApplyProjections(w0, LinearProjectionFactor, AngularProjectionFactor, JointSettings),
                   ApplyProjections(w1, LinearProjectionFactor, AngularProjectionFactor, JointSettings) >>
        bReturnsEarly == LinearProjectionFactor = 0 /\ AngularProjectionFactor = 0
    IN  /\ solveCall.pc = "Idle"
        /\ SolveParticles' = IF bReturnsEarly THEN SolveParticles
                             ELSE UpdateTheParticles(SolveParticles, Work, {"P", "Q"})
        /\ solveCall' = [ pc |-> "Idle", Op |-> "ProjectPosition",
                          NumPairIts |-> 0, PairIt |-> 0,
                          SolverSettings |-> SolverSettings,
                          JointSettings |-> JointSettings,
                          ParticleLevels |-> ParticleLevels,
                          Factors |-> << LinearProjectionFactor, AngularProjectionFactor >>,
                          Frozen |-> IF bReturnsEarly
                                     THEN << WorkingCopy(SolveParticles[BodyParticle(0)]),
                                             WorkingCopy(SolveParticles[BodyParticle(1)]) >>
                                     ELSE << w0, w1 >>,
                          Returned |-> bReturnsEarly,
                          Work |-> Work,
                          Before |-> SolveParticles,
                          Writes |-> IF bReturnsEarly THEN [p \in SolveParticleIds |-> 0]
                                     ELSE WrittenBy(SolveParticles),
                          Partial |-> FALSE ]
        /\ SolveUnchanged

SolveInit ==
    /\ SolveParticles = [p \in SolveParticleIds |-> SolveParticle(TRUE, 1, 1)]
    /\ solveCall = NoSolveCall

SpringsInit ==
    /\ Constraints = << >>
    /\ Distances = << >>
    /\ SpringDistances = << >>
    /\ springEvent = << >>
    /\ applyFault = "None"

SolverInit ==
    /\ ObjectType = [g \in GTParticles |-> "None"]
    /\ Proxy = [g \in GTParticles |-> nullptr]
    /\ proxyObject = [p \in ProxyIds |-> NoProxy]
    /\ RigidParticlePhysicsProxies = {}
    /\ KinematicGeometryParticlePhysicsProxies = {}
    /\ GeometryParticlePhysicsProxies = {}
    /\ DirtyProxiesSet = {}
    /\ CommandQueue = << >>
    /\ GTGeometryParticle = [h \in Handles |-> nullptr]
    /\ dereferenced = {}
    /\ earlyUnregister = FALSE
    /\ badDestroy = FALSE

StepInit ==
    /\ pc = "Idle"
    /\ MDeltaTime = 0
    /\ MMaxDeltaTime = TicksPerSecond
    /\ MTime = 0
    /\ requested = 0
    /\ steps = << >>
    /\ endFrameDt = 0

SoaInit ==
    /\ soa = [p \in PoolNames |-> << >>]
    /\ handle = [h \in Handles |-> NullHandle]
    /\ ActiveParticlesToIndex = EmptyMap
    /\ ActiveParticlesArray = << >>
    /\ ActiveClusteredToIndex = EmptyMap
    /\ ActiveClusteredArray = << >>
    /\ NonDisabledClusteredToIndex = EmptyMap
    /\ NonDisabledClusteredArray = << >>
    /\ deactivated = {}
    /\ lastSwitch = NoSwitch

\* ---------------------------- FSimulation: active bodies and ignored pairs

\* A null FActorHandle pointer.
NullActor == 0

NoActiveCall ==
    [ Called |-> FALSE, In |-> 0, Was |-> 0, Num |-> 0, Indexed |-> {}, Enable |-> FALSE,
      Halted |-> FALSE ]

NoIgnoreCall == [ Called |-> FALSE, Pairs |-> << >>, Replaced |-> FALSE ]

\* TArray::Remove(Item): every element equal to Item goes, the order is kept.
RemoveItem(s, Item) == SelectSeq(s, LAMBDA e : e /= Item)

ActiveUnchanged ==
    UNCHANGED << soaVars, jointVars, stepVars, solverVars, springVars, callVars,
                 advanceVars, solveVars, netVars >>

\* DestroyActor: the handle leaves ActorHandles and is deleted; the number of
\* active handles is not touched.
DestroyActor(ActorHandle) ==
    /\ ~activeCall.Halted
    /\ ActorHandle \in Range(ActorHandles)
    /\ ActorHandles' = RemoveItem(ActorHandles, ActorHandle)
    /\ actor' = [actor EXCEPT ![ActorHandle] = NoActor]
    /\ conditioned' = FALSE
    /\ UNCHANGED << JointHandles, activeVars >>
    /\ ActiveUnchanged

\* The indices SetNumActiveBodies passes to GetActorHandle: those it disables
\* when the number shrinks, those it enables when the number grows.
IndicesUsed(InNumActiveActorHandles, Num) ==
    IF InNumActiveActorHandles < Num
    THEN InNumActiveActorHandles .. Num - 1
    ELSE IF InNumActiveActorHandles > Num
         THEN Num .. InNumActiveActorHandles - 1
         ELSE {}

\* The valid indices of ActorHandles.
ValidIndices == 0 .. Len(ActorHandles) - 1

\* SetNumActiveBodies: SetEnabled on every handle between the old and the new
\* number, then the new number is stored.  The history keeps the indices
\* GetActorHandle was called with and the size of the array at that time.
\* An index outside of the array is an access beyond its end: a build with
\* range checks stops there, any other build goes on.
SetNumActiveBodies(InNumActiveActorHandles) ==
    /\ ~activeCall.Halted
    /\ LET Indexed == IndicesUsed(InNumActiveActorHandles, NumActiveActorHandles)
       IN  \E bRangeChecked \in IF Indexed \subseteq ValidIndices THEN { FALSE } ELSE BOOLEAN :
               /\ NumActiveActorHandles' = IF bRangeChecked THEN NumActiveActorHandles
                                                            ELSE InNumActiveActorHandles
               /\ activeCall' = [ Called |-> TRUE,
                                  In |-> InNumActiveActorHandles,
                                  Was |-> NumActiveActorHandles,
                                  Num |-> Len(ActorHandles),
                                  Indexed |-> Indexed,
                                  Enable |-> InNumActiveActorHandles > NumActiveActorHandles,
                                  Halted |-> bRangeChecked ]
    /\ UNCHANGED << IgnoreCollisionParticlePairTable, ChaosImmediate_Collision_Enabled,
                    ignoreCall, simVars >>
    /\ ActiveUnchanged

\* ActorHandle->GetParticle(): every handle owns one particle.
GetParticle(ActorHandle) == ActorHandle

\* The map after Reset, kept by a table that accumulates.
TableKept(Table) == Table

\* IgnoreCollisionParticlePairTable.Reset().
TableReset(Table) == {}

\* Table.FindOrAdd(Key).Add(Element).
FindOrAddAdd(Table, Key, Element) == Table \cup { << Key, Element >> }

\* The loop over InIgnoreCollisionPairTable from its k-th pair on.
RECURSIVE AddIgnorePairs(_, _, _)
AddIgnorePairs(Table, Pairs, k) ==
    IF k > Len(Pairs)
    THEN Table
    ELSE LET A == Pairs[k][1]
             B == Pairs[k][2]
         IN  IF A = NullActor \/ B = NullActor
             THEN AddIgnorePairs(Table, Pairs, k + 1)
             ELSE AddIgnorePairs(
                      FindOrAddAdd(FindOrAddAdd(Table, GetParticle(A), GetParticle(B)),
                                   GetParticle(B), GetParticle(A)),
                      Pairs, k + 1)

SetIgnoreCollisionPairTable(InIgnoreCollisionPairTable) ==
    /\ IgnoreCollisionParticlePairTable' =
           AddIgnorePairs(TableReset(IgnoreCollisionParticlePairTable),
                          InIgnoreCollisionPairTable, 1)
    /\ ignoreCall' = [ Called |-> TRUE,
                       Pairs |-> InIgnoreCollisionPairTable,
                       Replaced |-> IgnoreCollisionParticlePairTable
                                        \ IgnoreCollisionParticlePairTable' /= {} ]
    /\ UNCHANGED << NumActiveActorHandles, activeCall, ChaosImmediate_Collision_Enabled,
                    simVars >>
    /\ ActiveUnchanged

\* The console variable p.Chaos.ImmPhys.Collision.Enabled is set.
SetCollisionEnabled(Value) ==
    /\ ChaosImmediate_Collision_Enabled' = Value
    /\ UNCHANGED << NumActiveActorHandles, activeCall, IgnoreCollisionParticlePairTable,
                    ignoreCall, simVars >>
    /\ ActiveUnchanged

\* IgnoreSetMap.Find(Particle) is non-null.
TableFind(IgnoreSetMap, Particle) == \E e \in IgnoreSetMap : e[1] = Particle

\* IgnoreSetMap.Find(Particle)->Contains(Other).
TableContains(IgnoreSetMap, Particle, Other) == << Particle, Other >> \in IgnoreSetMap

ShouldIgnoreCollisionConstraint(ParticleA, ParticleB, IgnoreSetMap) ==
    IF ChaosImmediate_Collision_Enabled = 0
    THEN TRUE
    ELSE IF TableFind(IgnoreSetMap, ParticleA)
         THEN TableContains(IgnoreSetMap, ParticleA, ParticleB)
         ELSE IF TableFind(IgnoreSetMap, ParticleB)
              THEN TableContains(IgnoreSetMap, ParticleB, ParticleA)
              ELSE FALSE

ActiveInit ==
    /\ NumActiveActorHandles = 0
    /\ activeCall = NoActiveCall
    /\ IgnoreCollisionParticlePairTable = {}
    /\ ChaosImmediate_Collision_Enabled = 1
    /\ ignoreCall = NoIgnoreCall

\* ------------------------------------------------ TNetworkedSimulationModel

ModelIds == 1 .. MaxModels

\* A null INetworkedSimulationModel pointer.
NullModel == 0

NoNetCall == [ Op |-> "None", This |-> NullModel, Parent |-> NullModel,
               HadParent |-> NullModel, HadDependents |-> << >> ]

\* The parent pointers and the dependent lists of all models.
NetState == [ Parent |-> ParentSimulation, Dependents |-> DependentSimulations ]

\* RemoveDependentSimulation that leaves the list as it is.
RemoveDependentSimulationNone(S, This, DependentSimulation) == S

\* This->RemoveDependentSimulation(DependentSimulation).
RemoveDependentSimulation(S, This, DependentSimulation) ==
    [S EXCEPT !.Dependents[This] = RemoveItem(@, DependentSimulation)]

\* This->AddDependentSimulation(DependentSimulation).
AddDependentSimulation(S, This, DependentSimulation) ==
    [S EXCEPT !.Dependents[This] = Append(@, DependentSimulation)]

\* This->SetParentSimulation(Parent) on the state S.
SetParentSimulationOn(S, This, Parent) ==
    LET Removed == IF S.Parent[This] /= NullModel
                   THEN RemoveDependentSimulation(S, S.Parent[This], This)
                   ELSE S
        Assigned == [Removed EXCEPT !.Parent[This] = Parent]
    IN  IF Parent /= NullModel
        THEN AddDependentSimulation(Assigned, Parent, This)
        ELSE Assigned

\* The loop of ClearAllDependentSimulations over LocalList from its k-th
\* element on.
RECURSIVE ClearLoop(_, _, _)
ClearLoop(S, LocalList, k) ==
    IF k > Len(LocalList)
    THEN S
    ELSE ClearLoop(SetParentSimulationOn(S, LocalList[k], NullModel), LocalList, k + 1)

\* This->ClearAllDependentSimulations() on the state S: the list is moved
\* into LocalList, which leaves the member empty.
ClearAllDependentSimulationsOn(S, This) ==
    ClearLoop([S EXCEPT !.Dependents[This] = << >>], S.Dependents[This], 1)

\* ~TNetworkedSimulationModel on the state S.
DestructorOn(S, This) ==
    ClearAllDependentSimulationsOn(SetParentSimulationOn(S, This, NullModel), This)

NetUnchanged ==
    UNCHANGED << soaVars, jointVars, simVars, stepVars, solverVars, springVars, callVars,
                 advanceVars, solveVars, activeVars >>

RPCUnchanged ==
    UNCHANGED << ServerRPCAccumulatedTimeSeconds, ServerRPCThresholdTimeSeconds, rpcCall >>

NetCallOf(Op, This, Parent) ==
    [ Op |-> Op, This |-> This, Parent |-> Parent,
      HadParent |-> ParentSimulation[This],
      HadDependents |-> DependentSimulations[This] ]

\* A model is constructed: no parent, no dependents.
ConstructModel(This) ==
    /\ This \notin NetModels
    /\ NetModels' = NetModels \cup { This }
    /\ ParentSimulation' = [ParentSimulation EXCEPT ![This] = NullModel]
    /\ DependentSimulations' = [DependentSimulations EXCEPT ![This] = << >>]
    /\ netCall' = NetCallOf("Construct", This, NullModel)
    /\ RPCUnchanged
    /\ NetUnchanged

SetParentSimulation(This, Parent) ==
    /\ This \in NetModels
    /\ Parent \in NetModels \cup { NullModel }
    /\ LET S == SetParentSimulationOn(NetState, This, Parent)
       IN  /\ ParentSimulation' = S.Parent
           /\ DependentSimulations' = S.Dependents
    /\ netCall' = NetCallOf("SetParentSimulation", This, Parent)
    /\ UNCHANGED NetModels
    /\ RPCUnchanged
    /\ NetUnchanged

ClearAllDependentSimulations(This) ==
    /\ This \in NetModels
    /\ LET S == ClearAllDependentSimulationsOn(NetState, This)
       IN  /\ ParentSimulation' = S.Parent
           /\ DependentSimulations' = S.Dependents
    /\ netCall' = NetCallOf("ClearAllDependentSimulations", This, NullModel)
    /\ UNCHANGED NetModels
    /\ RPCUnchanged
    /\ NetUnchanged

\* The model is destroyed: its destructor runs and the object is gone.
DestroyModel(This) ==
    /\ This \in NetModels
    /\ LET S == DestructorOn(NetState, This)
       IN  /\ ParentSimulation' = S.Parent
           /\ DependentSimulations' = S.Dependents
    /\ NetModels' = NetModels \ { This }
    /\ netCall' = NetCallOf("Destroy", This, NullModel)
    /\ RPCUnchanged
    /\ NetUnchanged

\* ------------------------------------------------------ ShouldSendServerRPC

\* Time in units of 1/999 s, the default threshold.
RPCTicksPerSecond == 999

\* The frequencies SetDesiredServerRPCSendFrequency is called with.
DesiredFrequencies == { RPCTicksPerSecond \div k : k \in { 1, 3, 9 } }

NoRPCCall ==
    [ Called |-> FALSE, DeltaTimeSeconds |-> 0, Before |-> 0, Added |-> 0, Return |-> FALSE ]

ModelsUnchanged ==
    UNCHANGED << NetModels, ParentSimulation, DependentSimulations, netCall >>

SetDesiredServerRPCSendFrequency(DesiredHz) ==
    /\ ServerRPCThresholdTimeSeconds' = RPCTicksPerSecond \div DesiredHz
    /\ UNCHANGED << ServerRPCAccumulatedTimeSeconds, rpcCall >>
    /\ ModelsUnchanged
    /\ NetUnchanged

\* CappedDeltaTimeSeconds is computed and not used: the whole of
\* DeltaTimeSeconds is added.
ShouldSendServerRPC(DeltaTimeSeconds) ==
    LET CappedDeltaTimeSeconds == Min(DeltaTimeSeconds, ServerRPCThresholdTimeSeconds)
        Accumulated == ServerRPCAccumulatedTimeSeconds + DeltaTimeSeconds
        Return == Accumulated >= ServerRPCThresholdTimeSeconds
    IN  /\ Accumulated <= MaxAccumulated
        /\ ServerRPCAccumulatedTimeSeconds' =
               IF Return THEN Accumulated - ServerRPCThresholdTimeSeconds ELSE Accumulated
        /\ rpcCall' = [ Called |-> TRUE, DeltaTimeSeconds |-> DeltaTimeSeconds,
                        Before |-> ServerRPCAccumulatedTimeSeconds,
                        Added |-> Accumulated - ServerRPCAccumulatedTimeSeconds,
                        Return |-> Return ]
        /\ UNCHANGED ServerRPCThresholdTimeSeconds
        /\ ModelsUnchanged
        /\ NetUnchanged

NetInit ==
    /\ NetModels = {}
    /\ ParentSimulation = [m \in ModelIds |-> NullModel]
    /\ DependentSimulations = [m \in ModelIds |-> << >>]
    /\ netCall = NoNetCall
    /\ ServerRPCAccumulatedTimeSeconds = 0
    /\ ServerRPCThresholdTimeSeconds = RPCTicksPerSecond \div 999
    /\ rpcCall = NoRPCCall

Init ==
    /\ SoaInit /\ JointsInit /\ SimInit /\ StepInit /\ SolverInit /\ SpringsInit /\ CallsInit
    /\ AdvanceInit /\ SolveInit /\ ActiveInit /\ NetInit

\* The particle store under all of its operations.
Next ==
    \/ CreateAction /\ UNCHANGED << deactivated, lastSwitch >>
    \/ \E h \in LiveHandles : Destroy(h) /\ UNCHANGED << deactivated, lastSwitch >>
    \/ \E h \in LiveHandles : Disable(h) /\ UNCHANGED << deactivated, lastSwitch >>
    \/ \E h \in LiveHandles : Enable(h) /\ UNCHANGED << deactivated, lastSwitch >>
    \/ \E h \in LiveHandles : Activate(h) /\ UNCHANGED << deactivated, lastSwitch >>
    \/ \E h \in LiveHandles : Deactivate(h) /\ UNCHANGED << deactivated, lastSwitch >>
    \/ \E h \in LiveHandles : SetDynamicSOA(h) /\ UNCHANGED << deactivated, lastSwitch >>
    \/ \E h \in LiveHandles, s \in ObjectStates : SetObjectState(h, s) /\ UNCHANGED << deactivated, lastSwitch >>

Spec == Init /\ [][Next]_vars

\* The store driven only by Create (default parameters), EnableParticle,
\* DisableParticle, ActivateParticle and DeactivateParticle; the history of
\* the Activate/Deactivate calls is recorded.
NextViews ==
    \/ \E kind \in Kinds, n \in 1 .. MaxBatch :
           Create(kind, n, FALSE, FALSE) /\ UNCHANGED << deactivated, lastSwitch >>
    \/ \E h \in LiveHandles : Disable(h) /\ UNCHANGED << deactivated, lastSwitch >>
    \/ \E h \in LiveHandles : Enable(h) /\ UNCHANGED << deactivated, lastSwitch >>
    \/ \E h \in LiveHandles : Activate(h) /\ deactivated' = deactivated \ {h} /\ UNCHANGED lastSwitch
    \/ \E h \in LiveHandles : Deactivate(h) /\ deactivated' = deactivated \cup {h} /\ UNCHANGED lastSwitch

SpecViews == Init /\ [][NextViews]_vars

\* The record of an EnableParticle / DisableParticle call: Again says that the
\* call before it was the same operation on the same particle.
Switched(Op, h) ==
    [ Op |-> Op, Particle |-> h,
      Again |-> lastSwitch.Op = Op /\ lastSwitch.Particle = h ]

\* The particle store, its particles created one at a time, with the enable /
\* disable calls on record.
NextSwitch ==
    \/ \E kind \in Kinds, bDisabled \in BOOLEAN, bStartSleeping \in BOOLEAN :
           /\ (kind \in { "Static", "Kinematic" } => ~bStartSleeping)
           /\ Create(kind, 1, bDisabled, bStartSleeping)
           /\ lastSwitch' = NoSwitch
           /\ UNCHANGED deactivated
    \/ \E h \in LiveHandles :
           Disable(h) /\ lastSwitch' = Switched("Disable", h) /\ UNCHANGED deactivated
    \/ \E h \in LiveHandles :
           Enable(h) /\ lastSwitch' = Switched("Enable", h) /\ UNCHANGED deactivated
    \/ \E h \in LiveHandles :
           Activate(h) /\ lastSwitch' = NoSwitch /\ UNCHANGED deactivated
    \/ \E h \in LiveHandles :
           Deactivate(h) /\ lastSwitch' = NoSwitch /\ UNCHANGED deactivated
    \/ \E h \in LiveHandles, s \in ObjectStates :
           SetObjectState(h, s) /\ lastSwitch' = NoSwitch /\ UNCHANGED deactivated

SpecSwitch == Init /\ [][NextSwitch]_vars

\* The particle store, its particles created one at a time, with the
\* velocities of enabled rigid particles changing.
NextDisable ==
    \/ \E kind \in Kinds, bDisabled \in BOOLEAN, bStartSleeping \in BOOLEAN :
           /\ (kind \in { "Static", "Kinematic" } => ~bStartSleeping)
           /\ Create(kind, 1, bDisabled, bStartSleeping)
           /\ UNCHANGED << deactivated, lastSwitch >>
    \/ \E h \in LiveHandles : Destroy(h) /\ UNCHANGED << deactivated, lastSwitch >>
    \/ \E h \in LiveHandles : Disable(h) /\ UNCHANGED << deactivated, lastSwitch >>
    \/ \E h \in LiveHandles : Enable(h) /\ UNCHANGED << deactivated, lastSwitch >>
    \/ \E h \in LiveHandles : Activate(h) /\ UNCHANGED << deactivated, lastSwitch >>
    \/ \E h \in LiveHandles : Deactivate(h) /\ UNCHANGED << deactivated, lastSwitch >>
    \/ \E h \in LiveHandles : SetDynamicSOA(h) /\ UNCHANGED << deactivated, lastSwitch >>
    \/ \E h \in LiveHandles, bZero \in BOOLEAN :
           SetVelocity(h, bZero) /\ UNCHANGED << deactivated, lastSwitch >>

SpecDisable == Init /\ [][NextDisable]_vars

\* The particle store, its particles created one at a time, with the
\* activate / deactivate calls on record.
NextActivate ==
    \/ \E kind \in Kinds, bDisabled \in BOOLEAN, bStartSleeping \in BOOLEAN :
           /\ (kind \in { "Static", "Kinematic" } => ~bStartSleeping)
           /\ Create(kind, 1, bDisabled, bStartSleeping)
           /\ lastSwitch' = NoSwitch
           /\ UNCHANGED deactivated
    \/ \E h \in LiveHandles :
           Disable(h) /\ lastSwitch' = NoSwitch /\ UNCHANGED deactivated
    \/ \E h \in LiveHandles :
           Enable(h) /\ lastSwitch' = NoSwitch /\ UNCHANGED deactivated
    \/ \E h \in LiveHandles :
           Activate(h) /\ lastSwitch' = Switched("Activate", h) /\ UNCHANGED deactivated
    \/ \E h \in LiveHandles :
           Deactivate(h) /\ lastSwitch' = Switched("Deactivate", h) /\ UNCHANGED deactivated

SpecActivate == Init /\ [][NextActivate]_vars

\* The joint container under AddConstraint, RemoveConstraint,
\* RemoveConstraints and SetParticleLevels.
NextJoints ==
    \/ \E pair \in ParticlePairs, js \in JointSettingsSpace :
           AddConstraintAction(pair, js)
    \/ \E i \in 0 .. MaxConstraints - 1 : RemoveConstraintAction(i)
    \/ \E p \in JointParticles : RemoveConstraintsAction({p})
    \/ \E h \in JointIds, lv \in LevelPairs : HandleSetParticleLevels(h, lv)

SpecJoints == Init /\ [][NextJoints]_vars

\* The solver settings that decide what a pass solves and projects.
OrderSettings ==
    { S \in SolverSettingsSpace :
          /\ S.ApplyPairIterations = DefaultSolverSettings.ApplyPairIterations
          /\ S.bEnableVelocitySolve = DefaultSolverSettings.bEnableVelocitySolve }

\* The passes over a chain of levelled constraints, handed the container's
\* handles in any order.
NextApply ==
    \/ AddConstraintAction(<< Len(ConstraintHandles) + 1, Len(ConstraintHandles) + 2 >>,
                           "SettingsA")
    \/ \E h \in JointIds, lv \in LevelPairs : HandleSetParticleLevels(h, lv)
    \/ \E S \in OrderSettings : SetSettings(S)
    \/ \E In \in HandleLists(Container), NumIts \in 1 .. MaxIts, It \in 0 .. MaxIts - 1 :
           It < NumIts /\ Apply(In, It, NumIts)
    \/ \E In \in HandleLists(Container), NumIts \in 1 .. MaxIts, It \in 0 .. MaxIts - 1 :
           It < NumIts /\ ApplyPushOut(In, It, NumIts)

SpecApply == Init /\ [][NextApply]_vars

\* The passes over all constraints of the container, under every solver
\* setting and every iteration.
NextProjection ==
    \/ AddConstraintAction(<< Len(ConstraintHandles) + 1, Len(ConstraintHandles) + 2 >>,
                           "SettingsA")
    \/ \E S \in SolverSettingsSpace : SetSettings(S)
    \/ \E NumIts \in 1 .. MaxIts, It \in 0 .. MaxIts - 1 :
           It < NumIts /\ Apply(ConstraintHandles, It, NumIts)
    \/ \E NumIts \in 1 .. MaxIts, It \in 0 .. MaxIts - 1 :
           It < NumIts /\ ApplyPushOut(ConstraintHandles, It, NumIts)

SpecProjection == Init /\ [][NextProjection]_vars

\* The immediate-mode simulation's actor/joint graph and its leveling.
NextSim ==
    \/ \E bDynamic \in BOOLEAN, l \in InitialLevels : CreateActor(bDynamic, l)
    \/ \E ab \in ActorPairs(Range(ActorHandles)) : CreateJoint(ab[1], ab[2])
    \/ \E j \in 1 .. MaxJoints : DestroyJoint(j)
    \/ ConditionConstraints

SpecSim == Init /\ [][NextSim]_vars

\* Step requests on the solver.
NextStep ==
    \/ Reset
    \/ \E DeltaTime \in DeltaTimes : NewTask(DeltaTime)
    \/ LoopStep
    \/ FinalStep
    \/ EndFrame

SpecStep == Init /\ [][NextStep]_vars

\* The game thread registers and unregisters particles while the physics
\* side executes the queued commands, in any interleaving.
NextRegister ==
    \/ \E Type \in EParticleType : NewGTParticle(Type)
    \/ \E g \in GTParticles, IsParticleValid \in BOOLEAN :
           RegisterObject(g, IsParticleValid)
    \/ \E g \in GTParticles : UnregisterObject(g)
    \/ ExecuteCommand

SpecRegister == Init /\ [][NextRegister]_vars

\* The same, with the game thread also setting properties of registered
\* particles, pushing them to the physics side and reading results back, and
\* the physics side buffering results.
NextSolver ==
    \/ \E Type \in EParticleType : NewGTParticle(Type)
    \/ \E g \in GTParticles, IsParticleValid \in BOOLEAN :
           RegisterObject(g, IsParticleValid)
    \/ \E g \in GTParticles : UnregisterObject(g)
    \/ \E g \in GTParticles : AddDirtyProxy(g)
    \/ \E bDispatcher \in BOOLEAN : PushPhysicsState(bDispatcher)
    \/ ExecuteCommand
    \/ BufferPhysicsResults
    \/ FlipBuffers
    \/ UpdateGameThreadStructures

SpecSolver == Init /\ [][NextSolver]_vars

\* One pair of particles without rotation, either of them dynamic: the second
\* is moved, the springs are updated and applied.
DynamicBodies(Positions) ==
    { SpringBody(TRUE, bDynamic, InvM, P, 1) :
        bDynamic \in BOOLEAN, InvM \in { 0, 1 }, P \in Positions }

NextSprings ==
    \/ \E Body0 \in DynamicBodies({ 0 }), Body1 \in DynamicBodies(SpringPositions) :
           Constraints = << >> /\ AddSpringConstraint(Body0, Body1)
    \/ \E i \in DOMAIN Constraints, X \in SpringPositions : SetSpringBodyX(i, 2, X)
    \/ UpdatePositionBasedState
    \/ \E i \in DOMAIN Constraints : ApplySingle(i)

SpecSprings == Init /\ [][NextSprings]_vars

\* One pair of particles that are not dynamic, with or without geometry,
\* rotated or not: the second is moved and the springs are updated.
StaticBodies(Positions) ==
    { SpringBody(bGeometry, FALSE, 0, P, Q) :
        bGeometry \in BOOLEAN, P \in Positions, Q \in Rotations }

NextSpringUpdate ==
    \/ \E Body0 \in StaticBodies({ 0 }), Body1 \in StaticBodies(SpringPositions) :
           Constraints = << >> /\ AddSpringConstraint(Body0, Body1)
    \/ \E i \in DOMAIN Constraints, X \in SpringPositions : SetSpringBodyX(i, 2, X)
    \/ UpdatePositionBasedState

SpecSpringUpdate == Init /\ [][NextSpringUpdate]_vars

\* A static sphere at X that is not rotated.
StaticSphere(X) == SpringBody(TRUE, FALSE, 0, X, 1)

\* Two pairs of static spheres that start on the same spot: the second sphere
\* of each pair is moved away from the first and the springs are updated.
NextSpringPairs ==
    \/ Len(Constraints) <= 1 /\ AddSpringConstraint(StaticSphere(0), StaticSphere(0))
    \/ \E i \in DOMAIN Constraints, X \in SpringPositions :
           X > Constraints[i][2].P /\ SetSpringBodyX(i, 2, X)
    \/ UpdatePositionBasedState

SpecSpringPairs == Init /\ [][NextSpringPairs]_vars

\* The stiffness functions on every solver and joint setting.
NextStiffness ==
    \/ /\ ~stiffnessCall.Called
       /\ \E S \in StiffnessSolverSettings, J \in StiffnessJointSettings : GetStiffness(S, J)
    \/ StiffnessReturn

SpecStiffness == Init /\ [][NextStiffness]_vars

\* A constraint added from a world-space frame between two bodies in every
\* position and orientation.
NextFrames ==
    \E B1 \in FrameBodies, B2 \in FrameBodies, W \in WorldFrames :
        /\ Len(ConstraintHandles) = 0
        /\ AddConstraintWorldFrame(<< 1, 2 >>, << B1, B2 >>, W)

SpecFrames == Init /\ [][NextFrames]_vars

\* The solver enabled and disabled, its multiplier set, and advanced.
NextAdvance ==
    \/ \E b \in BOOLEAN : SetEnabled(b)
    \/ \E m \in 1 .. MaxMultiplier : SetTimeStepMultiplier(m)
    \/ \E DeltaTime \in 0 .. MaxDeltaTicks : AdvanceSolverBy(DeltaTime)
    \/ Reset

SpecAdvance == Init /\ [][NextAdvance]_vars

\* One constraint between two particles of any kind, set up and then solved
\* or projected once, with levels of any order.
NextSolve ==
    \/ \E a \in SolveParticleSpace, b \in SolveParticleSpace : SetSolveParticles(a, b)
    \/ /\ solveCall = NoSolveCall
       /\ \E Op \in {"SolvePosition", "SolveVelocity"}, NumPairIts \in 0 .. MaxPairIts,
             lv \in SolveLevels :
              BeginSolve(Op, NumPairIts, lv)
    \/ PairIteration
    \/ SolveUpdate
    \/ /\ solveCall = NoSolveCall
       /\ \E S \in ProjectionSettings, J \in JointProjections, lv \in SolveLevels :
              ProjectPosition(S, J, lv)

SpecSolve == Init /\ [][NextSolve]_vars

\* Actors created and destroyed and the number of active bodies set, every
\* call within what the array holds at that time.
NextActive ==
    \/ /\ ~activeCall.Halted
       /\ \E bDynamic \in BOOLEAN, l \in InitialLevels : CreateActor(bDynamic, l)
    \/ \E ActorHandle \in ActorIds : DestroyActor(ActorHandle)
    \/ \E InNumActiveActorHandles \in 0 .. Len(ActorHandles) :
           SetNumActiveBodies(InNumActiveActorHandles)

SpecActive == Init /\ [][NextActive]_vars

\* The pair tables of at most MaxIgnorePairs pairs over the actors A.
IgnorePairTables(A) == UNION { [1 .. n -> A \X A] : n \in 0 .. MaxIgnorePairs }

\* Pair tables of the actors of the simulation and null pointers are set, and
\* collisions are switched on and off; a table of at most one pair is replaced
\* by another table.
NextIgnore ==
    \/ CreateActor(TRUE, INDEX_NONE)
    \/ /\ Len(ignoreCall.Pairs) <= 1
       /\ \E Pairs \in IgnorePairTables(Range(ActorHandles) \cup { NullActor }) :
              SetIgnoreCollisionPairTable(Pairs)
    \/ \E Value \in { 0, 1 } : SetCollisionEnabled(Value)

SpecIgnore == Init /\ [][NextIgnore]_vars

\* Models constructed, given parents, cleared of dependents and destroyed.
NextNet ==
    \/ \E This \in ModelIds : ConstructModel(This)
    \/ \E This \in ModelIds, Parent \in ModelIds \cup { NullModel } :
           SetParentSimulation(This, Parent)
    \/ \E This \in ModelIds : ClearAllDependentSimulations(This)
    \/ \E This \in ModelIds : DestroyModel(This)

SpecNet == Init /\ [][NextNet]_vars

\* The send frequency is set and frames of any length are reported.
NextRPC ==
    \/ \E DesiredHz \in DesiredFrequencies : SetDesiredServerRPCSendFrequency(DesiredHz)
    \/ \E DeltaTimeSeconds \in 0 .. MaxRPCDelta : ShouldSendServerRPC(DeltaTimeSeconds)

SpecRPC == Init /\ [][NextRPC]_vars

\* Any handles of the container, as an array in any order.
HandleSubLists(c) == UNION { SeqsOf(S) : S \in SUBSET Range(c.Handles) }

\* The two passes, with the settings of the constructor and a single
\* iteration, over constraints of which any may have been given levels and
\* any may not.
NextUnleveled ==
    \/ AddConstraintAction(<< Len(ConstraintHandles) + 1, Len(ConstraintHandles) + 2 >>,
                           "SettingsA")
    \/ \E i \in 0 .. MaxConstraints - 1 : RemoveConstraintAction(i)
    \/ \E h \in JointIds, lv \in LevelPairs : HandleSetParticleLevels(h, lv)
    \/ \E In \in HandleSubLists(Container) : Apply(In, 0, 1)
    \/ \E In \in HandleSubLists(Container) : ApplyPushOut(In, 0, 1)

SpecUnleveled == Init /\ [][NextUnleveled]_vars

\* ------------------------------------------------------------------ claims
\* ---- particle store

\* Every place of the pools that holds the slot of handle h.
SlotsOf(h) ==
    { pi \in PoolNames \X (1 .. MaxParticles) :
          /\ pi[2] <= Len(soa[pi[1]])
          /\ soa[pi[1]][pi[2]].Handle = h }

\* The handle's pool and index name a slot that exists.
Resolves(h) ==
    /\ handle[h].pool \in PoolNames
    /\ handle[h].idx >= 0
    /\ handle[h].idx < Len(soa[handle[h].pool])

\* The naive filter over all particles: the rigid particles that are not
\* disabled and not deactivated.
NaiveActiveFilter ==
    { h \in LiveHandles :
          /\ AsDynamic(handle, h)
          /\ ~Slot(soa, handle, h).Disabled
          /\ h \notin deactivated }

\* C1: after any sequence of EnableParticle, DisableParticle, ActivateParticle
\* and DeactivateParticle calls, GetActiveParticlesView() holds exactly the
\* particles that are enabled and active: it equals the naive filter.
C1_ActiveViewIsNaiveFilter == GetActiveParticlesView = NaiveActiveFilter

\* C2: a handle returned by Create resolves to the same logical particle (the
\* slot created for it) as long as it is live, and it stops being live only in
\* a DestroyParticle call on that handle itself.
C2_HandleStability ==
    /\ [](\A h \in LiveHandles : Resolves(h) /\ Slot(soa, handle, h).Handle = h)
    /\ [][\A h \in Handles :
             (handle[h].live /\ ~handle'[h].live) => Destroy(h)]_vars

\* C2 witness: handle 2 is live and resolves to its own slot at index 0 after
\* handle 1, created before it, has been destroyed.
C2_Witness ==
    /\ handle[2].live
    /\ ~handle[1].live
    /\ handle[2].idx = 0
    /\ Slot(soa, handle, 2).Handle = 2

\* C3: every live handle resolves to exactly one storage slot in exactly one
\* of the eight pools, and no slot belongs to a handle that is not live.
C3_OneSlotOnePool ==
    /\ \A h \in LiveHandles :
           /\ Resolves(h)
           /\ SlotsOf(h) = { << handle[h].pool, handle[h].idx + 1 >> }
    /\ \A h \in Handles \ LiveHandles : SlotsOf(h) = {}

\* C3 witness: a rigid particle that was disabled and re-enabled as kinematic
\* sits in the dynamic-kinematic pool while another particle is live.
C3_Witness ==
    \E h \in LiveHandles :
        /\ handle[h].pool = "DynamicKinematic"
        /\ ~Slot(soa, handle, h).Disabled
        /\ Cardinality(LiveHandles) = MaxParticles

\* The handles a step has created.
Created == { h \in Handles : ~handle[h].live /\ handle'[h].live }

\* C4: immediately after a Create*Particles call returns, for every
\* combination of bDisabled and bStartSleeping, a newly created particle is in
\* the active-particles view (and the active-clustered array) only if it was
\* created enabled and not sleeping.
C4_CreatedActiveOnlyIfEnabledAwake ==
    [][\A kind \in Kinds, n \in 1 .. MaxBatch, bDisabled \in BOOLEAN, bStartSleeping \in BOOLEAN :
          Create(kind, n, bDisabled, bStartSleeping) =>
              \A h \in Created :
                  (h \in GetActiveParticlesView' \/ h \in Range(ActiveClusteredArray'))
                      => (~bDisabled /\ ~bStartSleeping)]_vars

\* ---- joint container

\* C5: after any sequence of AddConstraint and RemoveConstraint calls no live
\* constraint handle carries a stale index: the handle at index i has
\* ConstraintIndex i, and at that index are the particle pair, the settings
\* and the state of the constraint the handle was created for.
C5_NoStaleIndex ==
    /\ NumConstraints(Container) = Len(ConstraintHandles)
    /\ \A i \in 0 .. NumConstraints(Container) - 1 :
           LET h == ConstraintHandles[i + 1]
           IN  /\ ConstraintIndex[h] = i
               /\ ConstraintParticles[i + 1] = createdFor[h].Particles
               /\ ConstraintSettings[i + 1] = createdFor[h].JointSettings
               /\ ConstraintStates[i + 1].ParticleLevels = createdFor[h].ParticleLevels

\* C5 witness: the handle allocated second sits at index 0, where a removal
\* has swapped it, with the settings and the levels it was given.
C5_Witness ==
    /\ Len(ConstraintHandles) = MaxConstraints
    /\ ConstraintHandles[1] = 2
    /\ ConstraintIndex[2] = 0
    /\ ConstraintSettings[1] = "SettingsB"
    /\ createdFor[2].JointSettings = "SettingsB"
    /\ ConstraintStates[1].ParticleLevels = << 1, 0 >>

\* C6: after RemoveConstraints(RemovedParticles) has returned, no constraint
\* that is in the container references a particle of RemovedParticles.
C6_RemovedNotReferenced ==
    \A i \in DOMAIN ConstraintParticles :
        Range(ConstraintParticles[i]) \cap removedParticles = {}

\* The level of the constraint behind a handle.
LevelOfHandle(h) == ConstraintStates[ConstraintIndex[h] + 1].Level

\* No constraint comes before one of a strictly higher level.
LeafToRoot(s) ==
    \A i, j \in 1 .. Len(s) : i < j => LevelOfHandle(s[i]) >= LevelOfHandle(s[j])

\* No constraint comes before one of a strictly lower level.
RootToLeaf(s) ==
    \A i, j \in 1 .. Len(s) : i < j => LevelOfHandle(s[i]) <= LevelOfHandle(s[j])

\* C7: a constraint's level is the minimum of its two particles' levels;
\* Apply solves the constraints it is handed, in whatever order they come,
\* from the highest level to the lowest, ApplyPushOut and ApplyProjection
\* from the lowest level to the highest.
C7_SolveOrderByLevel ==
    /\ \A i \in DOMAIN ConstraintStates :
           LET st == ConstraintStates[i]
           IN  /\ st.Level <= st.ParticleLevels[1]
               /\ st.Level <= st.ParticleLevels[2]
               /\ st.Level \in { st.ParticleLevels[1], st.ParticleLevels[2] }
    /\ lastCall.Pass = "Apply" =>
           /\ Range(lastCall.Solved) = lastCall.In
           /\ LeafToRoot(lastCall.Solved)
    /\ lastCall.Pass = "ApplyPushOut" => RootToLeaf(lastCall.Solved)
    /\ lastCall.Projected =>
           /\ Range(lastCall.Projection) = lastCall.In
           /\ RootToLeaf(lastCall.Projection)

\* C7 witness: the chain anchor - A - B, with the constraint anchor-A at level 0
\* and A-B at level 1: Apply has solved A-B first and has projected anchor-A
\* first.
C7_Witness ==
    /\ Len(ConstraintStates) = 2
    /\ ConstraintStates[1].ParticleLevels = << 0, 1 >>
    /\ ConstraintStates[2].ParticleLevels = << 1, 2 >>
    /\ lastCall.Pass = "Apply"
    /\ lastCall.Solved = << 2, 1 >>
    /\ lastCall.Projected
    /\ lastCall.Projection = << 1, 2 >>

\* The iteration on which a pass with NumIts iterations projects.
ProjectionIteration(Pass, NumIts) ==
    IF Pass = "ApplyPushOut" /\ Settings.ApplyPushOutPairIterations = 0
    THEN 0
    ELSE NumIts - 1

\* C9: ApplyProjection is invoked only from the pass selected by
\* Settings.ProjectionPhase (never when the phase is None), and on one
\* iteration of that pass: the last one, It = NumIts - 1, except that
\* ApplyPushOut with ApplyPushOutPairIterations = 0 projects on It = 0; so
\* over It = 0 .. NumIts - 1 of the attached pass it runs exactly once, for
\* every value of ApplyPairIterations and ApplyPushOutPairIterations.
C9_ProjectionOncePerPass ==
    /\ lastCall.Projected => Settings.ProjectionPhase = lastCall.Pass
    /\ lastCall.Pass # "NoCall" =>
           (lastCall.Projected <=>
                /\ Settings.ProjectionPhase = lastCall.Pass
                /\ lastCall.It = ProjectionIteration(lastCall.Pass, lastCall.NumIts))
    /\ \A NumIts \in 1 .. MaxIts :
           /\ Cardinality({ It \in 0 .. NumIts - 1 : ApplyProjects(Settings, It, NumIts) })
                  = IF Settings.ProjectionPhase = "Apply" THEN 1 ELSE 0
           /\ Cardinality({ It \in 0 .. NumIts - 1 : PushOutProjects(Settings, It, NumIts) })
                  = IF Settings.ProjectionPhase = "ApplyPushOut" THEN 1 ELSE 0

\* C9 witness: ApplyPushOut with no pair iterations has projected every
\* constraint on the first of several iterations.
C9_Witness ==
    /\ lastCall.Pass = "ApplyPushOut"
    /\ Settings.ApplyPushOutPairIterations = 0
    /\ lastCall.NumIts = MaxIts
    /\ lastCall.It = 0
    /\ lastCall.Projected
    /\ Len(lastCall.Projection) = MaxConstraints

\* C9 as stated: ApplyProjection is invoked only from the pass selected by
\* Settings.ProjectionPhase and only on the last iteration, It = NumIts - 1.
C9_ProjectionOnLastIteration ==
    lastCall.Projected =>
        /\ Settings.ProjectionPhase = lastCall.Pass
        /\ lastCall.It = lastCall.NumIts - 1

\* ---- graph leveling

NonDynamicActors == { a \in Range(ActorHandles) : ~actor[a].dynamic }

Joined(a, b) ==
    \E j \in DOMAIN JointHandles :
        JointHandles[j].Actors \in { << a, b >>, << b, a >> }

\* The actors with a joint path of at most k joints to a non-dynamic actor.
RECURSIVE Within(_)
Within(k) ==
    IF k = 0 THEN NonDynamicActors
    ELSE Within(k - 1) \cup
         { a \in Range(ActorHandles) : \E b \in Within(k - 1) : Joined(a, b) }

\* The length of the shortest joint path to a non-dynamic actor.
ShortestPath(a) ==
    IF a \in Within(MaxActors)
    THEN CHOOSE k \in 0 .. MaxActors :
             a \in Within(k) /\ \A m \in 0 .. k - 1 : a \notin Within(m)
    ELSE INDEX_NONE

\* C8: after ConditionConstraints, whatever the levels were before, every
\* actor's level is the length of the shortest joint path from it to a
\* non-dynamic actor: 0 for the non-dynamic actors, INDEX_NONE for the actors
\* not connected to any.
C8_LevelIsShortestPath ==
    conditioned =>
        \A a \in Range(ActorHandles) : actor[a].Level = ShortestPath(a)

\* C8 witness: the chain kinematic anchor - dynamic A - dynamic B has the
\* levels 0, 1, 2.
C8_Witness ==
    /\ conditioned
    /\ ActorHandles = << 1, 2, 3 >>
    /\ ~actor[1].dynamic
    /\ actor[2].dynamic
    /\ actor[3].dynamic
    /\ Len(JointHandles) = 2
    /\ JointHandles[1].Actors = << 2, 3 >>
    /\ JointHandles[2].Actors = << 1, 2 >>
    /\ << actor[1].Level, actor[2].Level, actor[3].Level >> = << 0, 1, 2 >>

\* ---- sub-stepping

RECURSIVE SumSeq(_)
SumSeq(s) == IF s = << >> THEN 0 ELSE s[1] + SumSeq(Tail(s))

\* C10: with MaxDeltaTime > 0, a step request never steps by more than
\* MaxDeltaTime; the steps it takes are steps of exactly MaxDeltaTime followed
\* by one last step, and together they make up the requested DeltaTime.
C10_SubSteps ==
    MMaxDeltaTime > 0 =>
        /\ \A i \in DOMAIN steps : steps[i] <= MMaxDeltaTime
        /\ pc = "Loop" => \A i \in DOMAIN steps : steps[i] = MMaxDeltaTime
        /\ (pc # "Loop" /\ steps # << >>) =>
               /\ \A i \in 1 .. Len(steps) - 1 : steps[i] = MMaxDeltaTime
               /\ SumSeq(steps) = requested

\* C10 witness: a finished request took steps of MaxDeltaTime and then a
\* shorter last step.
C10_Witness ==
    /\ pc = "Idle"
    /\ MMaxDeltaTime > 0
    /\ Len(steps) >= 2
    /\ steps[Len(steps)] > 0
    /\ steps[Len(steps)] < MMaxDeltaTime
    /\ requested > MMaxDeltaTime

\* C11: a step request runs to completion. Every turn of the sub-step loop
\* leaves less time to be stepped than there was before it, for every
\* DeltaTime a task can be constructed with and every MaxDeltaTime the solver
\* holds, so that the loop is left after finitely many turns.
C11_LoopTurnConsumesTime ==
    [][(pc = "Loop" /\ pc' = "Loop") => MDeltaTime' < MDeltaTime]_vars

\* AdvanceOneTimeStep calls of the running task that no EndFrame has followed.
AdvancesSinceEndFrame == IF pc = "Idle" THEN 0 ELSE Len(steps)

\* C12: EndFrame runs after every sub-step and before the next sub-step
\* begins: there is never more than one AdvanceOneTimeStep call that no
\* EndFrame has followed.
C12_EndFrameAfterEverySubStep == AdvancesSinceEndFrame <= 1

\* ---- registration of game-thread particles

\* The Register command of proxy p waits in the queue.
PendingRegister(p) ==
    \E k \in DOMAIN CommandQueue :
        CommandQueue[k].Op = "Register" /\ CommandQueue[k].Proxy = p

\* The live proxies whose handle is the particle handle h.
ProxiesOfHandle(h) == { p \in ProxyIds : proxyObject[p].live /\ proxyObject[p].Handle = h }

\* C13: once RegisterObject has returned, the particle's proxy exists, is in
\* the collection of the particle's type and in no other, and is attached to
\* the particle. Until the Register command executes the proxy has no handle
\* and no particle has been created for it; after the command its handle is
\* one newly created live particle of the same kind, which no other proxy
\* has.
C13_ProxyAtOnceHandleByCommand ==
    /\ \A g \in GTParticles : Proxy[g] # nullptr =>
           /\ proxyObject[Proxy[g]].live
           /\ proxyObject[Proxy[g]].Particle = g
           /\ proxyObject[Proxy[g]].Type = ObjectType[g]
           /\ \A T \in EParticleType :
                  Proxy[g] \in ProxyCollections[T] <=> T = ObjectType[g]
    /\ \A p \in ProxyIds : proxyObject[p].live =>
           IF PendingRegister(p)
           THEN proxyObject[p].Handle = nullptr
           ELSE /\ proxyObject[p].Handle # nullptr
                /\ handle[proxyObject[p].Handle].live
                /\ handle[proxyObject[p].Handle].kind = proxyObject[p].Type
                /\ GTGeometryParticle[proxyObject[p].Handle] = proxyObject[p].Particle
    /\ \A h \in LiveHandles : Cardinality(ProxiesOfHandle(h)) = 1

\* C13 witness: one registration still waits for its command, with a proxy
\* attached and no handle, while the command of another has created a
\* dynamic particle.
C13_Witness ==
    \E g1, g2 \in GTParticles :
        /\ Proxy[g1] # nullptr /\ Proxy[g2] # nullptr
        /\ PendingRegister(Proxy[g1])
        /\ proxyObject[Proxy[g1]].Handle = nullptr
        /\ ~PendingRegister(Proxy[g2])
        /\ ObjectType[g2] = "Dynamic"
        /\ Cardinality(LiveHandles) = 1
        /\ handle[proxyObject[Proxy[g2]].Handle].kind = "Dynamic"

\* C14: no operation dereferences the proxy pointer of an unregistered
\* particle, which is null: PushPhysicsState, BufferPhysicsResults,
\* FlipBuffers and UpdateGameThreadStructures never call through a null proxy
\* pointer.
C14_NoNullProxyDereferenced == nullptr \notin dereferenced

\* The live particle handles created for game-thread particle g.
ParticlesOf(g) == { h \in LiveHandles : GTGeometryParticle[h] = g }

\* C15: once the queue is drained, every registered particle has exactly one
\* live physics particle, every unregistered particle has none, and no
\* handle was destroyed when it was not live.
C15_DrainedQueueMatchesRegistration ==
    /\ CommandQueue = << >> =>
           \A g \in GTParticles :
               Cardinality(ParticlesOf(g)) = IF Proxy[g] # nullptr THEN 1 ELSE 0
    /\ ~badDestroy

\* C15 witness: an Unregister was issued before the matching Register
\* command had executed; the queue is drained, one particle is registered and
\* has its one physics particle, and the other, unregistered, has none.
C15_Witness ==
    /\ CommandQueue = << >>
    /\ earlyUnregister
    /\ \E g1, g2 \in GTParticles :
           /\ g1 # g2
           /\ Proxy[g1] # nullptr
           /\ Cardinality(ParticlesOf(g1)) = 1
           /\ ObjectType[g2] # "None"
           /\ Proxy[g2] = nullptr
           /\ ParticlesOf(g2) = {}

\* ---- dynamic spring constraints
\* How often a spring occurs in an array of springs.
SpringCount(s, e) == Cardinality({ k \in DOMAIN s : s[k] = e })

\* The springs the delete loop of an update took out.
RemovedSprings(e) == { s \in Range(e.Pre) : SpringCount(e.Left, s) < SpringCount(e.Pre, s) }

\* Strictly between the creation threshold and twice the creation threshold.
InBandTwice(x2) == 2 * CreationThreshold < x2 /\ x2 < 4 * CreationThreshold

C17_RemovedIffTooFar ==
    \A i \in DOMAIN springEvent :
        LET e == springEvent[i]
        IN  e.Updated =>
              /\ Range(e.Left) \subseteq Range(e.Pre)
              /\ \A s \in Range(e.Pre) :
                     SpringCount(e.Left, s) =
                         IF s.Separation > 2 * CreationThreshold THEN 0
                         ELSE SpringCount(e.Pre, s)

\* An update removed one spring of a constraint and kept another one of the
\* same constraint, with springs on the other constraint.
C17_Witness ==
    /\ Len(springEvent) = 2
    /\ \E i, j \in DOMAIN springEvent :
        /\ i # j
        /\ springEvent[i].Updated
        /\ RemovedSprings(springEvent[i]) # {}
        /\ springEvent[i].Left # << >>
        /\ springEvent[j].Pre # << >>
        /\ springEvent[j].Left = springEvent[j].Pre

\* C18: every constraint holds between 0 and MaxSprings springs, as many
\* end point pairs as rest lengths, and an update adds a spring only to a
\* constraint that has fewer than MaxSprings springs left and whose two
\* bodies both have geometry.
C18_SpringCountBounded ==
    /\ Len(Distances) = Len(Constraints)
    /\ Len(SpringDistances) = Len(Constraints)
    /\ \A i \in DOMAIN Constraints :
        /\ Len(SpringDistances[i]) <= MaxSprings
        /\ Len(Distances[i]) = Len(SpringDistances[i])
    /\ \A i \in DOMAIN springEvent :
        LET e == springEvent[i]
        IN  (e.Updated /\ e.Created) => (Len(e.Left) < MaxSprings /\ e.Geometry)

\* An update found a constraint full, with the geometries within the
\* creation threshold, and added nothing.
C18_Witness ==
    \E i \in DOMAIN springEvent :
        LET e == springEvent[i]
        IN  /\ e.Updated
            /\ Len(e.Left) = MaxSprings
            /\ e.GapTwice <= 2 * CreationThreshold
            /\ ~e.Created
            /\ Len(SpringDistances[i]) = MaxSprings

\* C19: no ApplySingle call fails the assertion on the distance of a spring's
\* end points or divides by a zero sum of inverse masses.
C19_NoFaultInApply == applyFault = "None"

\* ---- particle store, enable and disable
\* C20: an EnableParticle or DisableParticle call that follows the same call
\* on the same particle leaves the pools, the handles, the Disabled flags,
\* the velocities, the active and non-disabled maps and arrays and the views
\* as the first call left them.
C20_EnableDisableIdempotent ==
    [][lastSwitch'.Again =>
          /\ Store' = Store
          /\ GetActiveParticlesView' = GetActiveParticlesView
          /\ GetNonDisabledView' = GetNonDisabledView
          /\ GetNonDisabledDynamicView' = GetNonDisabledDynamicView
          /\ GetAllParticlesView' = GetAllParticlesView
          /\ GetActiveKinematicParticlesView' = GetActiveKinematicParticlesView]_vars

\* A particle that is not the last of its pool has been disabled, or
\* enabled, twice in a row, with every handle live.
C20_Witness ==
    /\ lastSwitch.Again
    /\ LiveHandles = Handles
    /\ handle[lastSwitch.Particle].idx + 1 < Len(soa[handle[lastSwitch.Particle].pool])

\* ---- particle store, disabled and active particles
\* C21: a rigid particle that DisableParticle has disabled, and that
\* EnableParticle has not enabled since, has zero velocities, is marked
\* disabled and is in none of the active arrays, whatever the store has
\* been asked to do in between.
C21_DisabledDynamicAtRest ==
    \A h \in LiveHandles :
        (AsDynamic(handle, h) /\ Slot(soa, handle, h).Disabled) =>
            /\ Slot(soa, handle, h).VZero
            /\ h \notin GetActiveParticlesView
            /\ h \notin DOMAIN ActiveParticlesToIndex
            /\ h \notin Range(ActiveClusteredArray)

\* A disabled rigid particle sits in the disabled pool while another rigid
\* particle is active and moves.
C21_Witness ==
    \E h, o \in LiveHandles :
        /\ handle[h].pool = "DynamicDisabled"
        /\ Slot(soa, handle, h).Disabled
        /\ o \in GetActiveParticlesView
        /\ ~Slot(soa, handle, o).VZero

\* C22: an ActivateParticle or DeactivateParticle call leaves the pools, the
\* slots with their Disabled flags and velocities, the handles and the
\* non-disabled array as they are, and changes the membership of no other
\* particle in the active arrays; on a particle that is not rigid it changes
\* nothing.
C22_ActivateTogglesActiveOnly ==
    [][\A h \in Handles :
          (handle[h].live /\ (Activate(h) \/ Deactivate(h))) =>
              /\ soa' = soa
              /\ handle' = handle
              /\ NonDisabledClusteredToIndex' = NonDisabledClusteredToIndex
              /\ NonDisabledClusteredArray' = NonDisabledClusteredArray
              /\ Range(ActiveParticlesArray') \ {h} = Range(ActiveParticlesArray) \ {h}
              /\ Range(ActiveClusteredArray') \ {h} = Range(ActiveClusteredArray) \ {h}
              /\ ~AsDynamic(handle, h) => Store' = Store]_vars

\* A rigid particle has just been deactivated: it is enabled, in the dynamic
\* pool, out of the active array, and the other particle is still active.
C22_Witness ==
    /\ lastSwitch.Op = "Deactivate"
    /\ handle[lastSwitch.Particle].pool = "Dynamic"
    /\ ~Slot(soa, handle, lastSwitch.Particle).Disabled
    /\ lastSwitch.Particle \notin GetActiveParticlesView
    /\ GetActiveParticlesView # {}

\* A particle is disabled when it is in one of the disabled pools or is
\* marked disabled.
IsDisabled(h) ==
    \/ handle[h].pool \in { "StaticDisabled", "KinematicDisabled", "DynamicDisabled" }
    \/ AsDynamic(handle, h) /\ Slot(soa, handle, h).Disabled

\* C23: no ActivateParticle call on a disabled particle, of any kind,
\* returns: the particle of a call that returned is not disabled.
C23_ActivateRejectsDisabled ==
    lastSwitch.Op = "Activate" => ~IsDisabled(lastSwitch.Particle)

\* The index maps agree with the index arrays.
MapMatchesArray(M, A) ==
    /\ \A i, j \in DOMAIN A : A[i] = A[j] => i = j
    /\ DOMAIN M = Range(A)
    /\ \A i \in DOMAIN A : M[A[i]] = i - 1

\* C24: a destroyed particle is in no pool, no view and no index array, and
\* every particle of the active array is recorded in the map at its
\* position in the array.
C24_DestroyedNowhere ==
    /\ \A h \in Handles \ LiveHandles :
           /\ h \notin GetAllParticlesView
           /\ h \notin GetNonDisabledView
           /\ h \notin GetNonDisabledDynamicView
           /\ h \notin GetActiveKinematicParticlesView
           /\ h \notin GetActiveParticlesView
           /\ h \notin DOMAIN ActiveParticlesToIndex
           /\ h \notin Range(ActiveClusteredArray) \cup Range(NonDisabledClusteredArray)
    /\ \A i \in DOMAIN ActiveParticlesArray :
           /\ ActiveParticlesArray[i] \in DOMAIN ActiveParticlesToIndex
           /\ ActiveParticlesToIndex[ActiveParticlesArray[i]] = i - 1

\* The first particle, active at index 0 before the second, has been
\* destroyed: the second is now at index 0 of the active array and of its
\* pool.
C24_Witness ==
    /\ ~handle[1].live
    /\ handle[2].live
    /\ handle[2].pool = "Dynamic"
    /\ handle[2].idx = 0
    /\ ActiveParticlesArray = << 2 >>

\* C29: each of the three index maps is the inverse of its index array, and
\* no array holds a particle twice.
C29_MapsAreBijections ==
    /\ MapMatchesArray(ActiveParticlesToIndex, ActiveParticlesArray)
    /\ MapMatchesArray(ActiveClusteredToIndex, ActiveClusteredArray)
    /\ MapMatchesArray(NonDisabledClusteredToIndex, NonDisabledClusteredArray)

\* A removal has swapped the last particle into a gap in each kind of array:
\* the active array holds the second particle before the first.
C29_Witness ==
    /\ ActiveParticlesArray = << 2, 1 >>
    /\ ActiveClusteredArray # << >>
    /\ NonDisabledClusteredArray # << >>

\* C25 as stated: in the three stiffness functions the base stiffness and
\* every soft stiffness equal the solver's override whenever the override is
\* not zero, and the joint's own setting only when the override is zero.
C25_OverrideWhenNonZero ==
    stiffnessCall.Called =>
        LET S == stiffnessCall.SolverSettings
            J == stiffnessCall.JointSettings
        IN  /\ stiffnessCall.SolverStiffness =
                   (IF S.Stiffness # 0 THEN S.Stiffness ELSE J.Stiffness)
            /\ stiffnessCall.SoftLinear =
                   (IF S.SoftLinearStiffness # 0 THEN S.SoftLinearStiffness
                                                  ELSE J.SoftLinearStiffness)
            /\ stiffnessCall.SoftTwist =
                   (IF S.SoftAngularStiffness # 0 THEN S.SoftAngularStiffness
                                                   ELSE J.SoftTwistStiffness)
            /\ stiffnessCall.SoftSwing =
                   (IF S.SoftAngularStiffness # 0 THEN S.SoftAngularStiffness
                                                   ELSE J.SoftSwingStiffness)

\* The value a stiffness has when the override is taken only if positive.
PositiveOr(Override, Setting) == IF Override <= 0 THEN Setting ELSE Override

\* C25: in the three stiffness functions the base stiffness and every soft
\* stiffness equal the solver's override whenever the override is greater
\* than zero, and the joint's own setting whenever it is zero or negative.
C25_OverrideWhenPositive ==
    stiffnessCall.Called =>
        LET S == stiffnessCall.SolverSettings
            J == stiffnessCall.JointSettings
        IN  /\ stiffnessCall.SolverStiffness = PositiveOr(S.Stiffness, J.Stiffness)
            /\ stiffnessCall.SoftLinear =
                   PositiveOr(S.SoftLinearStiffness, J.SoftLinearStiffness)
            /\ stiffnessCall.SoftTwist =
                   PositiveOr(S.SoftAngularStiffness, J.SoftTwistStiffness)
            /\ stiffnessCall.SoftSwing =
                   PositiveOr(S.SoftAngularStiffness, J.SoftSwingStiffness)

\* A call with a negative base override and a positive soft override.
C25_Witness ==
    /\ stiffnessCall.Called
    /\ stiffnessCall.SolverSettings.Stiffness < 0
    /\ stiffnessCall.SolverSettings.SoftAngularStiffness > 0
    /\ stiffnessCall.SolverStiffness = stiffnessCall.JointSettings.Stiffness
    /\ stiffnessCall.SoftTwist = stiffnessCall.SolverSettings.SoftAngularStiffness

\* The axes of the three groups, each with its motion type in a call.
LinearAxes == 1 .. 3

SwingAxes == {"Swing1", "Swing2"}

\* C26 as stated: an axis is soft only if the soft-limit flag of its group
\* is enabled and the motion type of that very axis is Limited; the
\* stiffness of a Locked or Free axis is the plain base stiffness.
C26_SoftOnlyLimitedAxis ==
    stiffnessCall.Called =>
        LET J == stiffnessCall.JointSettings
            Base == stiffnessCall.SolverStiffness
        IN  /\ \A a \in LinearAxes :
                   IF J.bSoftLinearLimitsEnabled /\ J.LinearMotionTypes[a] = "Limited"
                   THEN stiffnessCall.Linear = Base * stiffnessCall.SoftLinear
                   ELSE stiffnessCall.Linear = Base
            /\ IF J.bSoftTwistLimitsEnabled /\ J.AngularMotionTypes["Twist"] = "Limited"
               THEN stiffnessCall.Twist = Base * stiffnessCall.SoftTwist
               ELSE stiffnessCall.Twist = Base
            /\ \A a \in SwingAxes :
                   IF J.bSoftSwingLimitsEnabled /\ J.AngularMotionTypes[a] = "Limited"
                   THEN stiffnessCall.Swing = Base * stiffnessCall.SoftSwing
                   ELSE stiffnessCall.Swing = Base

\* C26: a group of axes is soft (stiffness = base x soft) exactly if its
\* soft-limit flag is enabled and some axis of the group is Limited; a group
\* whose axes are all Locked or Free, or whose flag is off, has the plain
\* base stiffness.
C26_SoftOnlyLimitedGroup ==
    stiffnessCall.Called =>
        LET J == stiffnessCall.JointSettings
            Base == stiffnessCall.SolverStiffness
        IN  /\ IF J.bSoftLinearLimitsEnabled
                  /\ \E a \in LinearAxes : J.LinearMotionTypes[a] = "Limited"
               THEN stiffnessCall.Linear = Base * stiffnessCall.SoftLinear
               ELSE stiffnessCall.Linear = Base
            /\ IF J.bSoftTwistLimitsEnabled /\ J.AngularMotionTypes["Twist"] = "Limited"
               THEN stiffnessCall.Twist = Base * stiffnessCall.SoftTwist
               ELSE stiffnessCall.Twist = Base
            /\ IF J.bSoftSwingLimitsEnabled
                  /\ \E a \in SwingAxes : J.AngularMotionTypes[a] = "Limited"
               THEN stiffnessCall.Swing = Base * stiffnessCall.SoftSwing
               ELSE stiffnessCall.Swing = Base

\* A call with all flags on where the linear group is soft through one
\* Limited axis among Locked ones and the swing group is not soft.
C26_Witness ==
    /\ stiffnessCall.Called
    /\ stiffnessCall.JointSettings.bSoftLinearLimitsEnabled
    /\ stiffnessCall.JointSettings.bSoftSwingLimitsEnabled
    /\ stiffnessCall.JointSettings.LinearMotionTypes = << "Locked", "Limited", "Locked" >>
    /\ stiffnessCall.JointSettings.AngularMotionTypes["Swing1"] = "Free"
    /\ stiffnessCall.JointSettings.AngularMotionTypes["Swing2"] = "Locked"
    /\ stiffnessCall.Linear = stiffnessCall.SolverStiffness * stiffnessCall.SoftLinear
    /\ stiffnessCall.Linear # stiffnessCall.SolverStiffness
    /\ stiffnessCall.Swing = stiffnessCall.SolverStiffness

\* C28: a constraint added from a world-space frame stores, for each body,
\* a local frame that the body's transform at creation takes back to the
\* world-space frame.
C28_LocalFramesReproduceWorld ==
    (frameCall.Called /\ ConstraintIndex[frameCall.Handle] # INDEX_NONE) =>
        LET Stored == ConstraintSettings[ConstraintIndex[frameCall.Handle] + 1].ConstraintFrames
        IN  \A i \in 1 .. 2 :
                TransformMultiply(Stored[i],
                                  FRigidTransform3(frameCall.Bodies[i].X,
                                                   frameCall.Bodies[i].R))
                    = frameCall.WorldConstraintFrame

\* The live handles whose constraint has never been given levels: every
\* SetParticleLevels call on a handle is recorded with the levels it set.
Unleveled ==
    { h \in Range(ConstraintHandles) : createdFor[h].ParticleLevels \notin LevelPairs }

\* The handles of a call in one of the orders that puts level L before level R
\* whenever Before[L, R], each handle once.
SolvedOnceInOrder(call, Before(_, _)) ==
    /\ Range(call.Solved) = call.In
    /\ Len(call.Solved) = Cardinality(call.In)
    /\ \A i, j \in 1 .. Len(call.Solved) :
           Before(LevelOfHandle(call.Solved[j]), LevelOfHandle(call.Solved[i])) => j < i

Higher(L, R) == L > R

Lower(L, R) == L < R

C30_TimeAdvancesByDeltaTime ==
    [][(pc = "EndFrame" /\ pc' = "Idle" /\ requested # FloatInfinity) =>
           /\ SumSeq(steps) = requested
           /\ MTime' = MTime + requested
           /\ endFrameDt' = requested]_vars

\* C31: one AdvanceSolverBy(DeltaTime) call on an enabled solver steps
\* DeltaTime of simulated time in all and advances the solver time by it,
\* whatever the TimeStepMultiplier; on a disabled solver it runs no step and
\* leaves the solver time and the frame counter as they were.
C31_AdvancesByDeltaTime ==
    advanceCall.Called =>
        IF advanceCall.Enabled
        THEN /\ advanceCall.Stepped = advanceCall.DeltaTime
             /\ MTime = advanceCall.Time + advanceCall.DeltaTime
        ELSE /\ advanceCall.Advances = 0
             /\ MTime = advanceCall.Time
             /\ CurrentFrame = advanceCall.Frame

\* ---- solving and projecting one constraint

\* What a particle stores of position, orientation and velocity.
StoredState(s) == << s.P, s.Q, s.V, s.W >>

\* The locals of the body that stands for the particle at position k of the pair.
LocalsOf(Work, k) == IF k = Index0 THEN Work[1] ELSE Work[2]

InSolve == solveCall.Op \in {"SolvePosition", "SolveVelocity"}

\* C32: while SolvePosition or SolveVelocity iterates on a constraint, the
\* particles store what they stored when the call began; when the call has
\* returned, each dynamic particle of the constraint stores the locals as
\* they were after the last pair iteration, written once.
C32_WrittenBackAfterLastIteration ==
    InSolve =>
        /\ solveCall.pc = "Loop" => SolveParticles = solveCall.Before
        /\ ~solveCall.Partial
        /\ solveCall.pc = "Idle" =>
               /\ solveCall.PairIt = solveCall.NumPairIts
               /\ \A k \in 1 .. 2 :
                      LET p == SolvedPair[k]
                      IN  SolveParticles[p].Dynamic =>
                              /\ StoredState(SolveParticles[p])
                                     = StoredState(LocalsOf(solveCall.Work, k))
                              /\ solveCall.Writes[p] = 1

\* C32 witness: between the first and the second pair iteration the locals
\* of a dynamic particle are ahead of what the particle stores.
C32_Witness ==
    /\ InSolve
    /\ solveCall.pc = "Loop"
    /\ solveCall.PairIt = 1
    /\ solveCall.NumPairIts = 2
    /\ SolveParticles[SolvedPair[2]].Dynamic
    /\ LocalsOf(solveCall.Work, 2).V = 1
    /\ SolveParticles[SolvedPair[2]].V = 0

\* The lower of the two levels is at position k of the pair.
LowerLevelAt(k) == solveCall.ParticleLevels[k] < solveCall.ParticleLevels[3 - k]

Projecting == solveCall.Op = "ProjectPosition" /\ ~solveCall.Returned

\* C33: when ProjectPosition corrects a constraint whose two particle
\* levels differ, the particle of the lower level has inverse mass and
\* inverse inertia zero and is not moved, and the other one has its own
\* inverse mass and inertia; with equal levels both have their own.
C33_LowerLevelFrozen ==
    Projecting =>
        \A k \in 1 .. 2 :
            LET p == SolvedPair[k]
                used == LocalsOf(solveCall.Frozen, k)
            IN  IF LowerLevelAt(k)
                THEN /\ used.InvM = 0
                     /\ used.InvIL = 0
                     /\ SolveParticles[p] = solveCall.Before[p]
                ELSE /\ used.InvM = solveCall.Before[p].InvM
                     /\ used.InvIL = solveCall.Before[p].InvI

\* C33 witness: of two dynamic particles with levels 0 and 1 the projection
\* has moved the second and left the first where it was.
C33_Witness ==
    /\ Projecting
    /\ solveCall.ParticleLevels = << 0, 1 >>
    /\ solveCall.Before[SolvedPair[1]].Dynamic
    /\ solveCall.Before[SolvedPair[2]].Dynamic
    /\ SolveParticles[SolvedPair[1]] = solveCall.Before[SolvedPair[1]]
    /\ SolveParticles[SolvedPair[2]].P = solveCall.Before[SolvedPair[2]].P + 1

\* C34: no solve and no projection changes a particle that is not dynamic
\* or that is not one of the two particles of the constraint, at any point
\* of the call.
C34_OnlyDynamicWritten ==
    solveCall.Op # "None" =>
        \A p \in SolveParticleIds :
            (~SolveParticles[p].Dynamic \/ p = Bystander) =>
                /\ SolveParticles[p] = solveCall.Before[p]
                /\ solveCall.pc = "Idle" => solveCall.Writes[p] = 0

\* C34 witness: a solve has returned whose body 1 is not dynamic and whose
\* local orientation was turned to the shortest arc, and the dynamic body
\* 0 has been moved.
C34_Witness ==
    /\ InSolve
    /\ solveCall.pc = "Idle"
    /\ solveCall.NumPairIts > 0
    /\ ~SolveParticles[SolvedPair[1]].Dynamic
    /\ LocalsOf(solveCall.Work, 1).Q # SolveParticles[SolvedPair[1]].Q
    /\ SolveParticles[SolvedPair[2]].Dynamic
    /\ SolveParticles[SolvedPair[2]] # solveCall.Before[SolvedPair[2]]

\* The factor a projection resolves to.
Resolved(Override, Setting) == IF Override <= 0 THEN Setting ELSE Override

\* C35: a projection changes nothing but the position and orientation of
\* dynamic particles of a constraint of which a projection factor resolves
\* to other than zero; it changes no velocity, and when both factors resolve
\* to zero it changes nothing.
C35_ProjectionMovesOnly ==
    solveCall.Op = "ProjectPosition" =>
        LET Linear == Resolved(solveCall.SolverSettings.LinearProjection,
                               solveCall.JointSettings.LinearProjection)
            Angular == Resolved(solveCall.SolverSettings.AngularProjection,
                                solveCall.JointSettings.AngularProjection)
        IN  /\ \A p \in SolveParticleIds :
                   /\ SolveParticles[p].V = solveCall.Before[p].V
                   /\ SolveParticles[p].W = solveCall.Before[p].W
                   /\ SolveParticles[p] # solveCall.Before[p] =>
                          /\ SolveParticles[p].Dynamic
                          /\ p \in Range(SolvedPair)
                          /\ Linear # 0 \/ Angular # 0
            /\ (Linear = 0 /\ Angular = 0) => SolveParticles = solveCall.Before

\* C35 witness: with no override and the joint's linear factor alone set, a
\* projection has moved a dynamic particle and left its orientation.
C35_Witness ==
    /\ solveCall.Op = "ProjectPosition"
    /\ solveCall.SolverSettings.LinearProjection = 0
    /\ solveCall.JointSettings.LinearProjection = 1
    /\ solveCall.Factors = << 1, 0 >>
    /\ SolveParticles[SolvedPair[2]].P = solveCall.Before[SolvedPair[2]].P + 1
    /\ SolveParticles[SolvedPair[2]].Q = solveCall.Before[SolvedPair[2]].Q

\* C36: after any sequence of CreateActor, DestroyActor and SetNumActiveBodies
\* calls the number of active actor handles lies between 0 and the number of
\* actor handles, and SetNumActiveBodies indexes no actor handle at or beyond
\* the end of ActorHandles.
C36_ActiveWithinHandles ==
    /\ 0 <= NumActiveActorHandles
    /\ NumActiveActorHandles <= Len(ActorHandles)
    /\ activeCall.Indexed \subseteq 0 .. activeCall.Num - 1

\* The table was given the pair (A, B) or the pair (B, A).
PairGiven(Pairs, A, B) ==
    \E k \in DOMAIN Pairs : Pairs[k] = << A, B >> \/ Pairs[k] = << B, A >>

\* The answer for the particles of the actors A and B.
Ignored(A, B) ==
    ShouldIgnoreCollisionConstraint(GetParticle(A), GetParticle(B),
                                    IgnoreCollisionParticlePairTable)

\* C37: after SetIgnoreCollisionPairTable(pairs), with collisions enabled, the
\* collision of two actors is ignored exactly when the pairs of that call hold
\* the two actors in either order; the answer is the same for (A, B) and
\* (B, A), and the pairs of earlier calls count no more.
C37_IgnoredExactlyLastPairs ==
    (ignoreCall.Called /\ ChaosImmediate_Collision_Enabled /= 0) =>
        \A A \in ActorIds, B \in ActorIds :
            /\ Ignored(A, B) <=> PairGiven(ignoreCall.Pairs, A, B)
            /\ Ignored(A, B) <=> Ignored(B, A)

\* A table with a pair of two different actors and a pair with a null actor
\* has replaced a table with a pair that is ignored no more.
C37_Witness ==
    /\ ignoreCall.Called
    /\ ChaosImmediate_Collision_Enabled /= 0
    /\ ignoreCall.Replaced
    /\ \E k \in DOMAIN ignoreCall.Pairs : NullActor \in Range(ignoreCall.Pairs[k])
    /\ \E A \in ActorIds, B \in ActorIds : A /= B /\ Ignored(A, B)
    /\ \E A \in ActorIds, B \in ActorIds : A /= B /\ ~Ignored(A, B)

C39_AccumulatorBelowThreshold ==
    rpcCall.Called =>
        /\ rpcCall.Added <= ServerRPCThresholdTimeSeconds
        /\ ServerRPCAccumulatedTimeSeconds < ServerRPCThresholdTimeSeconds

====
